---- MODULE Spec2Model ----
(***************************************************************************)
(* Model of the simulation engine of ConclusionCliffSimulator (main.py):   *)
(* the weighted selector, the step engine, the run simulator, the          *)
(* extension policy of the two-stage simulators, the local-search          *)
(* optimizer, the spend sequencer, the normalizers and the threshold       *)
(* table, the Monte Carlo loops with their accumulators, and the cycle     *)
(* economy simulator.                                                      *)
(*                                                                         *)
(* Python lists are 0-based; the sequences here are 1-based, so the index  *)
(* i of the model is the index i-1 of the code.  Floating-point weights    *)
(* and samples are exact rationals <<numerator, denominator>>, except in   *)
(* the section on the threshold table, which computes the divisions and    *)
(* the running sum as IEEE-754 doubles, bit for bit.                       *)
(***************************************************************************)
EXTENDS Integers, Sequences, FiniteSets, TLC

VARIABLES
    pc,          \* position of the operation being run
    values,      \* the notoriety vector being mutated
    prev,        \* the vector before the last hunt step
    cheese,      \* magnitude of the last hunt step (0: none yet)
    roll,        \* the last sample of random.random()
    sel,         \* the index the last selection returned (0: none yet)
    cumulative,  \* the cumulative threshold table in use
    weights,     \* the distribution the table was built from (<<>>: none)
    variant,           \* the simulator running: "plain", "pruned", "single", "optimizer"
    setup_index,       \* the setup being executed, 0 or 1 as in the code
    page_vars,         \* setup["page_vars"] of the two setups, sanitized
    auto_extend_var,   \* setup["auto_extend_var"] of the two setups
    extend_var,        \* setup["extend_var"] of the two setups
    sequences,         \* the cheese sequences of the two setups
    start_values,      \* the vector handed to the setup execution
    stage_cumulative,  \* the table handed to the setup execution
    custom_counts,     \* the pruned counts handed to it (<<>>: None)
    pos,               \* next position in the cheese sequence
    run_values,        \* what _simulate_sequence returned: the vector
    run_ready,         \*   and the readiness flag
    extended,          \* the extension was applied
    switch_to_medium,  \* local of _apply_extension
    extra,             \* extra hunts applied so far
    ext_cheese,        \* the magnitudes of the extra hunts so far
    ext_at,            \* per extra hunt: the vector when its magnitude was chosen
    ready,             \* the readiness flag returned
    genre_page_vars,   \* optimizer: the sanitized page counts
    range_var,         \* optimizer: the sanitized search parameters
    iterations_var,
    simulations_var,
    candidates_var,
    best_counts,       \* locals of _run_optimization
    best_prob,
    direction_bias,
    iteration,
    candidates,
    prob_trace,        \* best_prob before the loop and after each iteration
    current_range,     \* locals of the iteration: the range used for perturbation
    current_candidates,\*   and the scheduled number of candidates
    evaluated,         \* the counts handed to _simulate_probability since the last adoption
    heap,              \* the list objects: object id -> contents (<<>>: not allocated)
    given_ref,         \* the object handed to _simulate_sequence as base_notoriety
    values_ref,        \* the object its local `values` is bound to (0: none)
    tier_counts,       \* the counts handed to _build_cheese_sequence
    cheese_sequence,   \* the sequence it returned
    raw_counts,        \* the auxiliary counts handed to the normalizers
    normalized,        \* what each normalizer returned, as exact fractions
    float_weights,     \* get_genre_weight_distribution(): the floats
    float_cumulative,  \* _prepare_weight_cumulative(weights): the floats
    base_notoriety,    \* the starting vector read from the entries, as read
    run_limit,         \* the number of trials of the loop (runs, MULTI_RUNS, simulations)
    runs_done,         \* the trials of the loop completed so far
    displayed,         \* the single displayed run before the loop is done
    totals,            \* the accumulators of the loop
    ready_runs,
    threshold_counts,
    extend_counts,
    total_extensions,
    cycles,            \* cycle economy: the sanitized inputs
    cheese_mid,
    cheese_high,
    chapter_tape,      \* the chapter draws of the runs of a cycle, in order
    cycle_index,       \* the cycles completed so far
    runs,              \* locals of _simulate_cycles
    hunts,
    total_runs,
    total_hunts,
    last_cycle_runs,
    last_cycle_hunts,
    pages,             \* locals of _simulate_single_run
    run_hunts

engineVars == <<values, prev, cheese, roll, sel, cumulative, weights>>
setupVars == <<variant, setup_index, page_vars, auto_extend_var, extend_var, sequences,
               start_values, stage_cumulative, custom_counts>>
trialVars == <<pos, run_values, run_ready, extended, switch_to_medium, extra,
               ext_cheese, ext_at, ready>>
optInputs == <<genre_page_vars, range_var, iterations_var, simulations_var, candidates_var>>
optLocals == <<current_range, current_candidates, evaluated>>
optVars == <<optInputs, best_counts, best_prob, direction_bias, iteration, candidates,
             prob_trace, optLocals>>
heapVars == <<heap, given_ref, values_ref>>
seqVars == <<tier_counts, cheese_sequence>>
tableVars == <<raw_counts, normalized, float_weights, float_cumulative>>
aggVars == <<base_notoriety, run_limit, runs_done, displayed, totals, ready_runs,
             threshold_counts, extend_counts, total_extensions>>
cycleVars == <<cycles, cheese_mid, cheese_high, chapter_tape, cycle_index, runs, hunts,
               total_runs, total_hunts, last_cycle_runs, last_cycle_hunts, pages,
               run_hunts>>
extVars == <<seqVars, tableVars, aggVars, cycleVars>>
vars == <<pc, engineVars, setupVars, trialVars, optVars, heapVars, extVars>>

\* ------------------------------------------------------------------ bounds
\* random.random() is sampled on the grid {0, 1/RollDen, ..., (RollDen-1)/RollDen}
RollDen == 4

\* ------------------------------------------------------- program constants
NumGenres == 5
NOTORIETY_CAP == 200
CHEESE_VALUES == <<25, 50, 125>>

GenreIdx == 1..NumGenres

\* ------------------------------------------------------------- rationals
RLeq(a, b) == a[1] * b[2] <= b[1] * a[2]
RLt(a, b) == a[1] * b[2] < b[1] * a[2]
RZero == <<0, 1>>
ROne == <<1, 1>>

RECURSIVE Gcd(_, _)
Gcd(a, b) == IF b = 0 THEN a ELSE Gcd(b, a % b)

\* the canonical form of the rational n/d, d > 0
RNorm(n, d) ==
    LET a == IF n < 0 THEN -n ELSE n
        g == Gcd(a, d)
    IN  <<n \div g, d \div g>>

\* sums and products of canonical rationals, with the common factors taken
\* out before multiplying
RAdd(a, b) ==
    LET g == Gcd(a[2], b[2])
    IN  RNorm(a[1] * (b[2] \div g) + b[1] * (a[2] \div g), (a[2] \div g) * b[2])

RMul(a, b) ==
    LET x == RNorm(a[1], b[2])
        y == RNorm(b[1], a[2])
    IN  <<x[1] * y[1], x[2] * y[2]>>

Min(a, b) == IF a <= b THEN a ELSE b
Max(a, b) == IF a >= b THEN a ELSE b

RECURSIVE SumTo(_, _)
SumTo(f, n) == IF n = 0 THEN 0 ELSE f[n] + SumTo(f, n - 1)

SumAll(f) == SumTo(f, NumGenres)

\* ------------------------------------------------------ weighted selector
\* the possible results of random.random(): a float in [0, 1), 0.0 included
Rolls == {<<k, RollDen>> : k \in 0..(RollDen - 1)}

\* a normalizer: counts[idx] / total, or 1 / len(GENRES) for a zero total
WeightsFromCounts(counts) ==
    LET total == SumAll(counts)
    IN  IF total <= 0
        THEN [g \in GenreIdx |-> RNorm(1, NumGenres)]
        ELSE [g \in GenreIdx |-> RNorm(counts[g], total)]

\* running += weights[genre], for the first g genres
RECURSIVE Running(_, _)
Running(w, g) ==
    IF g = 0 THEN RZero ELSE RAdd(Running(w, g - 1), w[g])

PrepareNoForce(w) == [g \in GenreIdx |-> Running(w, g)]

\* the running prefix sums; the last entry is overwritten with 1.0
PrepareWeightCumulative(w) ==
    [g \in GenreIdx |-> IF g = NumGenres THEN ROne ELSE Running(w, g)]

\* the scan of _select_genre_index with the roll made explicit
RECURSIVE ScanThresholds(_, _, _)
ScanThresholds(r, cumulative_weights, i) ==
    IF i > Len(cumulative_weights) THEN Len(cumulative_weights)
    ELSE IF RLeq(r, cumulative_weights[i]) THEN i
    ELSE ScanThresholds(r, cumulative_weights, i + 1)

SelectStrict(r, cumulative_weights) ==
    IF \E i \in 1..Len(cumulative_weights) : RLt(r, cumulative_weights[i])
    THEN CHOOSE i \in 1..Len(cumulative_weights) :
            /\ RLt(r, cumulative_weights[i])
            /\ \A j \in 1..(i - 1) : ~RLt(r, cumulative_weights[j])
    ELSE Len(cumulative_weights)

SelectGenreIndex(r, cumulative_weights) ==
    ScanThresholds(r, cumulative_weights, 1)

\* ------------------------------------------------------------ step engine
StepNoCap(vals, cheese_value, idx) ==
    [o \in GenreIdx |->
        IF o = idx THEN vals[o] + cheese_value
        ELSE IF vals[o] > 1 THEN vals[o] - 1 ELSE vals[o]]

StepDecayAll(vals, cheese_value, idx) ==
    [o \in GenreIdx |->
        IF vals[o] > 1
        THEN Min(NOTORIETY_CAP, vals[o] + (IF o = idx THEN cheese_value ELSE 0)) - 1
        ELSE IF o = idx THEN Min(NOTORIETY_CAP, vals[o] + cheese_value) ELSE vals[o]]

StepDecayToZero(vals, cheese_value, idx) ==
    [o \in GenreIdx |->
        IF o = idx THEN Min(NOTORIETY_CAP, vals[o] + cheese_value)
        ELSE IF vals[o] > 0 THEN vals[o] - 1 ELSE vals[o]]

StepDecayTwo(vals, cheese_value, idx) ==
    [o \in GenreIdx |->
        IF o = idx THEN Min(NOTORIETY_CAP, vals[o] + cheese_value)
        ELSE IF vals[o] > 2 THEN vals[o] - 2 ELSE vals[o]]

StepFloorAtOne(vals, cheese_value, idx) ==
    [o \in GenreIdx |->
        IF o = idx THEN Min(NOTORIETY_CAP, vals[o] + cheese_value)
        ELSE IF vals[o] > 1 THEN vals[o] - 1 ELSE 1]

\* the effect of _apply_hunt_step on the vector once the index is selected
StepValues(vals, cheese_value, idx) ==
    [o \in GenreIdx |->
        IF o = idx THEN Min(NOTORIETY_CAP, vals[o] + cheese_value)
        ELSE IF vals[o] > 1 THEN vals[o] - 1 ELSE vals[o]]

AllAbove(vals) == \A g \in GenreIdx : vals[g] > 80

AnyReady(vals) == \E g \in GenreIdx : vals[g] >= 80

\* ready = all(value >= 80 for value in values)
AllReady(vals) == \A g \in GenreIdx : vals[g] >= 80

\* _apply_hunt_step(values, cheese_value, cumulative_weights): one sample,
\* one selection, the raise of the selected genre and the decay of the others
ApplyHuntStep(cheese_value, cumulative_weights) ==
    \E r \in Rolls :
        LET i == SelectGenreIndex(r, cumulative_weights)
        IN  /\ roll' = r
            /\ sel' = i
            /\ prev' = values
            /\ cheese' = cheese_value
            /\ cumulative' = cumulative_weights
            /\ values' = StepValues(values, cheese_value, i)

\* the two-stage simulators are not running
DualIdle ==
    /\ variant = "none"
    /\ setup_index = 0
    /\ page_vars = <<>>
    /\ auto_extend_var = <<>>
    /\ extend_var = <<>>
    /\ sequences = <<>>
    /\ start_values = <<>>
    /\ stage_cumulative = <<>>
    /\ custom_counts = <<>>
    /\ pos = 0
    /\ run_values = <<>>
    /\ run_ready = FALSE
    /\ extended = FALSE
    /\ switch_to_medium = FALSE
    /\ extra = 0
    /\ ext_cheese = <<>>
    /\ ext_at = <<>>
    /\ ready = FALSE

\* the optimizer is not running
OptIdle ==
    /\ genre_page_vars = <<>>
    /\ range_var = 0
    /\ iterations_var = 0
    /\ simulations_var = 0
    /\ candidates_var = 0
    /\ best_counts = <<>>
    /\ best_prob = RZero
    /\ direction_bias = <<>>
    /\ iteration = 0
    /\ candidates = <<>>
    /\ prob_trace = <<>>
    /\ current_range = RZero
    /\ current_candidates = 0
    /\ evaluated = <<>>

\* the ids of the list objects
ObjIds == 1..4

\* no list object is tracked
HeapIdle ==
    /\ heap = [o \in ObjIds |-> <<>>]
    /\ given_ref = 0
    /\ values_ref = 0

\* the spend sequencer is not running
SeqIdle ==
    /\ tier_counts = <<>>
    /\ cheese_sequence = <<>>

\* no normalizer and no table builder is running
TableIdle ==
    /\ raw_counts = <<>>
    /\ normalized = <<>>
    /\ float_weights = <<>>
    /\ float_cumulative = <<>>

\* no Monte Carlo loop is running
AggIdle ==
    /\ base_notoriety = <<>>
    /\ run_limit = 0
    /\ runs_done = 0
    /\ displayed = FALSE
    /\ totals = <<>>
    /\ ready_runs = 0
    /\ threshold_counts = <<>>
    /\ extend_counts = <<>>
    /\ total_extensions = 0

\* the cycle economy simulator is not running
CycleIdle ==
    /\ cycles = 0
    /\ cheese_mid = 0
    /\ cheese_high = 0
    /\ chapter_tape = <<>>
    /\ cycle_index = 0
    /\ runs = 0
    /\ hunts = 0
    /\ total_runs = 0
    /\ total_hunts = 0
    /\ last_cycle_runs = 0
    /\ last_cycle_hunts = 0
    /\ pages = <<>>
    /\ run_hunts = 0

ExtIdle == SeqIdle /\ TableIdle /\ AggIdle /\ CycleIdle

\* no vector, sample or table is in use
EngineIdle ==
    /\ values = <<>>
    /\ prev = <<>>
    /\ cheese = 0
    /\ roll = RZero
    /\ sel = 0
    /\ cumulative = <<>>
    /\ weights = <<>>

\* ===================================================== the selector alone
OneHot(a) == [g \in GenreIdx |-> IF g = a THEN ROne ELSE RZero]

\* the distributions handed to _prepare_weight_cumulative
Distributions ==
    {OneHot(a) : a \in GenreIdx}
        \cup {WeightsFromCounts(c) : c \in [GenreIdx -> 0..1]}

ThresholdGrid == {RZero, <<1, 2>>, ROne}

InitSelect ==
    /\ pc = "input"
    /\ cumulative \in [GenreIdx -> ThresholdGrid]
    /\ weights = <<>>
    /\ values = [g \in GenreIdx |-> 0]
    /\ prev = values
    /\ cheese = 0
    /\ roll = RZero
    /\ sel = 0
    /\ DualIdle
    /\ OptIdle
    /\ HeapIdle
    /\ ExtIdle

PrepareTable ==
    /\ UNCHANGED <<optVars, heapVars, extVars>>
    /\ pc = "input"
    /\ \E w \in Distributions :
        /\ weights' = w
        /\ cumulative' = PrepareWeightCumulative(w)
    /\ pc' = "prepared"
    /\ UNCHANGED <<values, prev, cheese, roll, sel, setupVars, trialVars>>

SelectGenre ==
    /\ UNCHANGED <<optVars, heapVars, extVars>>
    /\ pc \in {"input", "prepared"}
    /\ \E r \in Rolls :
        /\ roll' = r
        /\ sel' = SelectGenreIndex(r, cumulative)
    /\ pc' = "selected"
    /\ UNCHANGED <<values, prev, cheese, cumulative, weights, setupVars, trialVars>>

NextSelect == PrepareTable \/ SelectGenre

SpecSelect == InitSelect /\ [][NextSelect]_vars

\* ================================================= one step of the engine
StepGrid == {0, 1, 2, 199, 200}

StepTables ==
    {PrepareWeightCumulative(OneHot(a)) : a \in GenreIdx}
        \cup {PrepareWeightCumulative(WeightsFromCounts([g \in GenreIdx |-> 0]))}

InitStep ==
    /\ pc = "input"
    /\ values \in [GenreIdx -> StepGrid]
    /\ prev = values
    /\ cheese = 0
    /\ roll = RZero
    /\ sel = 0
    /\ cumulative = <<>>
    /\ weights = <<>>
    /\ DualIdle
    /\ OptIdle
    /\ HeapIdle
    /\ ExtIdle

HuntStep ==
    /\ UNCHANGED <<optVars, heapVars, extVars>>
    /\ pc = "input"
    /\ \E c \in {CHEESE_VALUES[k] : k \in 1..Len(CHEESE_VALUES)}, t \in StepTables :
        ApplyHuntStep(c, t)
    /\ pc' = "stepped"
    /\ UNCHANGED <<weights, setupVars, trialVars>>

NextStep == HuntStep

SpecStep == InitStep /\ [][NextStep]_vars

\* ------------------------------------------------------------------ claims
\* C1 as stated: after one step of the engine every entry of the vector is
\* in [1, 200], whatever the starting vector in [0, 200].
C1_AllEntriesAtLeastOne ==
    pc = "stepped" => \A g \in GenreIdx : values[g] >= 1 /\ values[g] <= NOTORIETY_CAP

\* C1 amended: after one step every entry is in [0, 200], and the selected
\* entry and every entry that was at least 1 before the step are in [1, 200].
C1_StepRange ==
    pc = "stepped" =>
        \A g \in GenreIdx :
            /\ values[g] >= 0
            /\ values[g] <= NOTORIETY_CAP
            /\ (g = sel \/ prev[g] >= 1) => values[g] >= 1

C1_Witness ==
    /\ pc = "stepped"
    /\ cheese = 50
    /\ prev[sel] = 199 /\ values[sel] = 200
    /\ \E g \in GenreIdx : g # sel /\ prev[g] = 1 /\ values[g] = 1
    /\ \E g \in GenreIdx : g # sel /\ prev[g] = 0 /\ values[g] = 0

\* C4: with weight 1.0 on one genre A and 0.0 on the others, every sample
\* in [0, 1) selects A, so a zero-weight genre is never selected.
C4_OneHotSelectsA ==
    \A a \in GenreIdx :
        (pc = "selected" /\ weights = OneHot(a)) => sel = a

\* C9: the selector returns the smallest index whose threshold is at least
\* the sample, and the last index when no threshold is.
C9_SmallestIndex ==
    pc = "selected" =>
        LET hits == {i \in GenreIdx : roll[1] * cumulative[i][2] <= cumulative[i][1] * roll[2]}
        IN  IF hits = {} THEN sel = NumGenres
            ELSE sel \in hits /\ \A j \in hits : sel <= j

C9_Witness ==
    /\ pc = "selected"
    /\ sel > 1 /\ sel < NumGenres
    /\ RLeq(roll, cumulative[sel]) /\ RLeq(roll, cumulative[sel + 1])
    /\ ~RLeq(roll, cumulative[1])

\* C10: the selected genre's new value is min(200, old value + magnitude);
\* the decay of the step does not touch it.
C10_SelectedRaisedAndCapped ==
    pc = "stepped" =>
        values[sel] = (IF prev[sel] + cheese > 200 THEN 200 ELSE prev[sel] + cheese)

C10_Witness ==
    /\ pc = "stepped"
    /\ cheese = 50 /\ prev[sel] = 199 /\ values[sel] = 200

\* C11: in one step every genre other than the selected one goes down by
\* exactly 1 when its value is above 1 and keeps its value when that is 1 or
\* 0; so no step takes a genre from a positive value to 0.
C11_OthersDecayToFloor ==
    pc = "stepped" =>
        \A g \in GenreIdx :
            g # sel =>
                /\ prev[g] > 1 => values[g] = prev[g] - 1
                /\ prev[g] \in {0, 1} => values[g] = prev[g]
                /\ prev[g] > 0 => values[g] > 0

C11_Witness ==
    /\ pc = "stepped"
    /\ \E g, h, k \in GenreIdx :
        /\ g # sel /\ prev[g] = 2 /\ values[g] = 1
        /\ h # sel /\ prev[h] = 1 /\ values[h] = 1
        /\ k # sel /\ prev[k] = 0 /\ values[k] = 0

\* ======================================= one setup of a two-stage simulator
\* ------------------------------------------------------------------ bounds
\* the cheese counts of a setup add up to at most MaxHunts
MaxHunts == 1

\* ------------------------------------------------------- program constants
EXTRA_HUNTS == 3

M_VALUE(setup) == IF setup = 0 THEN 10 ELSE 0

RECURSIVE Repeat(_, _)
Repeat(v, n) == IF n <= 0 THEN <<>> ELSE <<v>> \o Repeat(v, n - 1)

\* sorted(..., key = value, reverse = True): the tier indices by falling value
DescendingTiers ==
    CHOOSE p \in [1..Len(CHEESE_VALUES) -> 1..Len(CHEESE_VALUES)] :
        /\ \A i, j \in DOMAIN p : i # j => p[i] # p[j]
        /\ \A i, j \in DOMAIN p : i < j => CHEESE_VALUES[p[i]] >= CHEESE_VALUES[p[j]]

RECURSIVE ExtendTiers(_, _)
ExtendTiers(counts, k) ==
    IF k > Len(CHEESE_VALUES) THEN <<>>
    ELSE Repeat(CHEESE_VALUES[DescendingTiers[k]], counts[DescendingTiers[k]])
            \o ExtendTiers(counts, k + 1)

BuildInTierOrder(counts) ==
    Repeat(CHEESE_VALUES[1], counts[1]) \o Repeat(CHEESE_VALUES[2], counts[2])
        \o Repeat(CHEESE_VALUES[3], counts[3])

BuildCheeseSequence(counts) == ExtendTiers(counts, 1)

NormalizeWithoutFallback(counts) ==
    LET total == SumAll(counts)
    IN  [g \in GenreIdx |-> IF total = 0 THEN RZero ELSE RNorm(counts[g], total)]

\* DualPostscriptSimulator._get_weight_distribution
GetWeightDistribution(counts) ==
    LET total == SumAll(counts)
    IN  IF total = 0
        THEN [g \in GenreIdx |-> RNorm(1, NumGenres)]
        ELSE [g \in GenreIdx |-> RNorm(counts[g], total)]

WeightsFromCountsList(counts) ==
    LET total == SumAll(counts)
    IN  IF total <= 0
        THEN [g \in GenreIdx |-> RNorm(1, NumGenres)]
        ELSE [g \in GenreIdx |-> RNorm(counts[g], total)]

SecondSetupPruneThreshold == IF extend_var[2] THEN 93 ELSE 90

KeepPageCounts(notoriety_values) == page_vars[2]

BuildPrunedAtOrAbove(notoriety_values) ==
    [g \in GenreIdx |->
        IF notoriety_values[g] >= SecondSetupPruneThreshold THEN 0 ELSE page_vars[2][g]]

BuildPrunedPageCounts(notoriety_values) ==
    [g \in GenreIdx |->
        IF notoriety_values[g] > SecondSetupPruneThreshold THEN 0 ELSE page_vars[2][g]]

MaxOf(counts) == CHOOSE m \in {counts[g] : g \in GenreIdx} : \A g \in GenreIdx : counts[g] <= m

NoConfig == [some |-> FALSE]

ConfigAllowZero(setup, page_counts) ==
    IF ~auto_extend_var[setup + 1] THEN NoConfig
    ELSE [some |-> TRUE,
          top_indices |-> {g \in GenreIdx : page_counts[g] = MaxOf(page_counts)},
          threshold_ready |-> 80 + M_VALUE(setup),
          threshold_high |-> 33 + M_VALUE(setup),
          extra_hunts |-> EXTRA_HUNTS,
          setup_index |-> setup]

ConfigIgnoreAuto(setup, page_counts) ==
    IF MaxOf(page_counts) <= 0 THEN NoConfig
    ELSE [some |-> TRUE,
          top_indices |-> {g \in GenreIdx : page_counts[g] = MaxOf(page_counts)},
          threshold_ready |-> 80 + M_VALUE(setup),
          threshold_high |-> 33 + M_VALUE(setup),
          extra_hunts |-> EXTRA_HUNTS,
          setup_index |-> setup]

\* the body shared by _extension_config and _extension_config_with_counts
ConfigFromCounts(setup, page_counts) ==
    IF ~auto_extend_var[setup + 1] THEN NoConfig
    ELSE IF MaxOf(page_counts) <= 0 THEN NoConfig
    ELSE [some |-> TRUE,
          top_indices |-> {g \in GenreIdx : page_counts[g] = MaxOf(page_counts)},
          threshold_ready |-> 80 + M_VALUE(setup),
          threshold_high |-> 33 + M_VALUE(setup),
          extra_hunts |-> EXTRA_HUNTS,
          setup_index |-> setup]

ExtensionConfig(setup) == ConfigFromCounts(setup, page_vars[setup + 1])

ExtensionConfigWithCounts(setup, counts) == ConfigFromCounts(setup, counts)

TriggerAtOrBelow(vals, config) ==
    IF /\ config.setup_index = 1
       /\ \E g \in config.top_indices : page_vars[2][g] = 0 /\ vals[g] < 83
    THEN FALSE
    ELSE \E g \in config.top_indices : vals[g] <= config.threshold_ready

ShouldTriggerExtension(vals, config) ==
    IF /\ config.setup_index = 1
       /\ \E g \in config.top_indices : page_vars[2][g] = 0 /\ vals[g] < 83
    THEN FALSE
    ELSE \E g \in config.top_indices : vals[g] < config.threshold_ready

ShouldTriggerExtensionWithCounts(vals, config, counts) ==
    IF /\ config.setup_index = 1
       /\ \E g \in config.top_indices : counts[g] = 0 /\ vals[g] < 83
    THEN FALSE
    ELSE \E g \in config.top_indices : vals[g] < config.threshold_ready

\* the config and the trigger decision of _execute_setup and of
\* _execute_setup_with_custom_weights
SetupConfig ==
    IF variant = "pruned" /\ custom_counts # <<>>
    THEN ExtensionConfigWithCounts(setup_index, custom_counts)
    ELSE ExtensionConfig(setup_index)

SetupTrigger(vals) ==
    IF ~SetupConfig.some THEN FALSE
    ELSE IF variant = "pruned" /\ custom_counts # <<>>
         THEN ShouldTriggerExtensionWithCounts(vals, SetupConfig, custom_counts)
         ELSE ShouldTriggerExtension(vals, SetupConfig)

ChoiceNoLatch(vals, config, switched) ==
    IF \E g \in config.top_indices : vals[g] < config.threshold_high
    THEN [cheese_value |-> 125, switch |-> FALSE]
    ELSE [cheese_value |-> 50, switch |-> TRUE]

\* the magnitude of one extra hunt and the new value of switch_to_medium
ExtensionChoice(vals, config, switched) ==
    IF ~switched
    THEN IF \E g \in config.top_indices : vals[g] < config.threshold_high
         THEN [cheese_value |-> 125, switch |-> FALSE]
         ELSE [cheese_value |-> 50, switch |-> TRUE]
    ELSE [cheese_value |-> 50, switch |-> TRUE]

ReadinessStale(vals, simulated_ready) == simulated_ready

\* ready = all(val >= 80 for val in values), after the extension if any
ReadinessReturned(vals, simulated_ready) == AllReady(vals)

ListAlias(given, fresh) == given

\* values = list(base_notoriety): the local is bound to a new list object
ListCopy(given, fresh) == fresh

\* what _run_dual_simulation prepares before it executes a setup, and the
\* entry of _simulate_sequence
PrepareSetup ==
    /\ UNCHANGED <<optVars, extVars>>
    /\ pc = "prepare"
    /\ IF variant = "pruned" /\ setup_index = 1
       THEN /\ custom_counts' = BuildPrunedPageCounts(start_values)
            /\ stage_cumulative' = PrepareWeightCumulative(
                    WeightsFromCountsList(BuildPrunedPageCounts(start_values)))
       ELSE /\ custom_counts' = <<>>
            /\ stage_cumulative' = PrepareWeightCumulative(
                    GetWeightDistribution(page_vars[setup_index + 1]))
    /\ values_ref' = ListCopy(given_ref, given_ref + 1)
    /\ heap' = [heap EXCEPT ![values_ref'] = heap[given_ref]]
    /\ values' = heap[given_ref]
    /\ UNCHANGED given_ref
    /\ pos' = 1
    /\ pc' = "run"
    /\ UNCHANGED <<prev, cheese, roll, sel, cumulative, weights>>
    /\ UNCHANGED <<variant, setup_index, page_vars, auto_extend_var, extend_var,
                   sequences, start_values>>
    /\ UNCHANGED <<run_values, run_ready, extended, switch_to_medium, extra,
                   ext_cheese, ext_at, ready>>

\* one iteration of the loop of _simulate_sequence
SequenceStep ==
    /\ UNCHANGED <<optVars, extVars>>
    /\ pc = "run"
    /\ pos <= Len(sequences[setup_index + 1])
    /\ ApplyHuntStep(sequences[setup_index + 1][pos], stage_cumulative)
    /\ heap' = [heap EXCEPT ![values_ref] = values']
    /\ UNCHANGED <<given_ref, values_ref>>
    /\ pos' = pos + 1
    /\ UNCHANGED <<pc, weights, setupVars>>
    /\ UNCHANGED <<run_values, run_ready, extended, switch_to_medium, extra,
                   ext_cheese, ext_at, ready>>

\* _simulate_sequence returns; the config is built and the trigger decided
DecideExtension ==
    /\ UNCHANGED <<optVars, extVars>>
    /\ pc = "run"
    /\ pos > Len(sequences[setup_index + 1])
    /\ run_values' = values
    /\ run_ready' = AllReady(values)
    /\ IF SetupTrigger(values)
       THEN /\ extended' = TRUE
            /\ switch_to_medium' = FALSE
            /\ extra' = 0
            /\ pc' = "extend"
            /\ UNCHANGED ready
       ELSE /\ extended' = FALSE
            /\ ready' = ReadinessReturned(values, AllReady(values))
            /\ pc' = "done"
            /\ UNCHANGED <<switch_to_medium, extra>>
    /\ UNCHANGED <<engineVars, setupVars, pos, ext_cheese, ext_at, heapVars>>

\* one iteration of the loop of _apply_extension; after the last one the
\* readiness is evaluated and the execution returns
ExtensionStep ==
    /\ UNCHANGED <<optVars, extVars>>
    /\ pc = "extend"
    /\ extra < SetupConfig.extra_hunts
    /\ LET choice == ExtensionChoice(values, SetupConfig, switch_to_medium)
       IN  /\ switch_to_medium' = choice.switch
           /\ ext_cheese' = Append(ext_cheese, choice.cheese_value)
           /\ ext_at' = Append(ext_at, values)
           /\ ApplyHuntStep(choice.cheese_value, stage_cumulative)
    /\ heap' = [heap EXCEPT ![values_ref] = values']
    /\ UNCHANGED <<given_ref, values_ref>>
    /\ extra' = extra + 1
    /\ IF extra + 1 = SetupConfig.extra_hunts
       THEN /\ ready' = ReadinessReturned(values', run_ready)
            /\ pc' = "done"
       ELSE UNCHANGED <<ready, pc>>
    /\ UNCHANGED <<weights, setupVars, pos, run_values, run_ready, extended>>

\* --------------------------------------------------------- inputs of a setup
TierCounts ==
    {c \in [1..Len(CHEESE_VALUES) -> 0..MaxHunts] : SumTo(c, Len(CHEESE_VALUES)) <= MaxHunts}

ZeroPages == [g \in GenreIdx |-> 0]

\* page counts: two genres tied for the top, one top genre, no pages at all
PageCountChoices ==
    {[g \in GenreIdx |-> IF g <= 2 THEN 1 ELSE 0],
     [g \in GenreIdx |-> IF g = 2 THEN 2 ELSE IF g = 3 THEN 1 ELSE 0],
     ZeroPages}

\* notoriety around the thresholds of the first setup (33 + 10, 80, 80 + 10)
\* and of the second (33, 80, the prune thresholds 90 and 93)
NotorietyChoices(setup) ==
    IF setup = 0 THEN {0, 1, 42, 43, 79, 80, 89, 90}
    ELSE {32, 33, 79, 80, 90, 91, 93, 94}

StartChoices(setup) ==
    {[g \in GenreIdx |-> IF g = 1 THEN a ELSE b] :
        a \in NotorietyChoices(setup), b \in NotorietyChoices(setup)}

InitSetup ==
    /\ pc = "prepare"
    /\ variant \in {"plain", "pruned"}
    /\ setup_index \in {0, 1}
    /\ \E p \in PageCountChoices :
        page_vars = [k \in 1..2 |-> IF k = setup_index + 1 THEN p ELSE ZeroPages]
    /\ \E a \in BOOLEAN :
        auto_extend_var = [k \in 1..2 |-> IF k = setup_index + 1 THEN a ELSE FALSE]
    /\ \E e \in BOOLEAN :
        /\ (variant = "plain" \/ setup_index = 0) => e = FALSE
        /\ extend_var = [k \in 1..2 |-> IF k = 2 THEN e ELSE FALSE]
    /\ \E c \in TierCounts :
        sequences = [k \in 1..2 |->
                        IF k = setup_index + 1 THEN BuildCheeseSequence(c) ELSE <<>>]
    /\ start_values \in StartChoices(setup_index)
    /\ stage_cumulative = <<>>
    /\ custom_counts = <<>>
    /\ values = start_values
    /\ prev = values
    /\ cheese = 0
    /\ roll = RZero
    /\ sel = 0
    /\ cumulative = <<>>
    /\ weights = <<>>
    /\ pos = 0
    /\ run_values = <<>>
    /\ run_ready = FALSE
    /\ extended = FALSE
    /\ switch_to_medium = FALSE
    /\ extra = 0
    /\ ext_cheese = <<>>
    /\ ext_at = <<>>
    /\ ready = FALSE
    /\ heap = [o \in ObjIds |-> IF o = 1 THEN start_values ELSE <<>>]
    /\ given_ref = 1
    /\ values_ref = 0
    /\ OptIdle
    /\ ExtIdle

NextSetup == PrepareSetup \/ SequenceStep \/ DecideExtension \/ ExtensionStep

SpecSetup == InitSetup /\ [][NextSetup]_vars

\* ------------------------------------------------------------------ claims
\* C5: with the extension enabled, a completed run whose top genres are all
\* at or above 80 + m (exactly 80 + m included) does not trigger it, and a
\* first-setup run (m = 10) with a top genre at 89 or lower does.
C5_StrictTrigger ==
    (pc \in {"extend", "done"} /\ auto_extend_var[setup_index + 1]) =>
        LET used == IF custom_counts # <<>> THEN custom_counts ELSE page_vars[setup_index + 1]
            top == {g \in GenreIdx : \A h \in GenreIdx : used[h] <= used[g]}
            thr == IF setup_index = 0 THEN 90 ELSE 80
        IN  (\E g \in GenreIdx : used[g] > 0) =>
                /\ (\A g \in top : run_values[g] >= thr) => ~extended
                /\ (setup_index = 0 /\ \E g \in top : run_values[g] <= thr - 1) => extended

C5_Witness ==
    /\ pc = "done"
    /\ setup_index = 0
    /\ auto_extend_var[1]
    /\ page_vars[1][1] = 1 /\ page_vars[1][2] = 1
    /\ run_values[1] = 90 /\ run_values[2] = 90
    /\ ~extended

\* C6: in the pruned variant the second setup's count of a genre is 0 exactly
\* when the genre's value after the first setup is strictly above the prune
\* threshold (93 with the extend flag of the second setup, 90 without), and
\* the configured count otherwise.
C6_PruneStrictlyAbove ==
    (variant = "pruned" /\ setup_index = 1 /\ pc # "prepare") =>
        LET threshold == IF extend_var[2] THEN 93 ELSE 90
        IN  \A g \in GenreIdx :
                /\ start_values[g] > threshold => custom_counts[g] = 0
                /\ start_values[g] <= threshold => custom_counts[g] = page_vars[2][g]

C6_Witness ==
    /\ variant = "pruned" /\ setup_index = 1 /\ pc = "run"
    /\ extend_var[2]
    /\ \E g, h \in GenreIdx :
        /\ start_values[g] = 93 /\ page_vars[2][g] > 0 /\ custom_counts[g] = page_vars[2][g]
        /\ start_values[h] = 94 /\ page_vars[2][h] > 0 /\ custom_counts[h] = 0

\* C7: a triggered extension applies exactly three extra hunts; an extra
\* hunt uses 125 iff no earlier extra hunt used 50 and some top genre is below
\* 33 + m when it is chosen, and 50 otherwise.
C7_OneWaySwitch ==
    (pc \in {"extend", "done"} /\ extended) =>
        LET used == IF custom_counts # <<>> THEN custom_counts ELSE page_vars[setup_index + 1]
            top == {g \in GenreIdx : \A h \in GenreIdx : used[h] <= used[g]}
            high == IF setup_index = 0 THEN 43 ELSE 33
        IN  /\ Len(ext_cheese) = extra
            /\ pc = "done" => Len(ext_cheese) = 3
            /\ \A k \in 1..Len(ext_cheese) :
                    ext_cheese[k] =
                        (IF /\ \A j \in 1..(k - 1) : ext_cheese[j] # 50
                            /\ \E g \in top : ext_at[k][g] < high
                         THEN 125 ELSE 50)

C7_Witness ==
    /\ pc = "done" /\ extended
    /\ setup_index = 0
    /\ ext_cheese = <<50, 50, 50>>
    /\ \E g \in GenreIdx :
        /\ page_vars[1][g] = 2
        /\ ext_at[2][g] < 43

\* C8: the readiness flag an executed setup returns is "every entry of the
\* returned vector is at least 80", on the vector after the extension.
C8_ReadinessOfFinalVector ==
    pc = "done" => (ready <=> \A g \in GenreIdx : values[g] >= 80)

C8_Witness ==
    /\ pc = "done" /\ extended
    /\ ready # run_ready

C25_TopGenresHavePages ==
    (pc \in {"extend", "done"} /\ setup_index = 1) =>
        LET used == IF custom_counts # <<>> THEN custom_counts ELSE page_vars[2]
            top == {g \in GenreIdx : \A h \in GenreIdx : used[h] <= used[g]}
        IN  /\ SetupConfig.some =>
                \A g \in SetupConfig.top_indices : used[g] > 0
            /\ extended <=>
                /\ auto_extend_var[2]
                /\ \E g \in GenreIdx : used[g] > 0
                /\ \E g \in top : run_values[g] < 80

\* a second setup of the pruning variant whose only top genre ended at 79,
\* below 83, and was extended
C25_Witness ==
    /\ pc = "done" /\ setup_index = 1 /\ variant = "pruned"
    /\ custom_counts = <<0, 2, 1, 0, 0>>
    /\ run_values[2] = 79
    /\ extended

\* C26 as stated: a completed run that is ready and on which the extension
\* triggers is still ready after the three extra hunts, whatever they select.
C26_ExtensionKeepsReady ==
    (pc = "done" /\ extended /\ run_ready) => ready

\* C26 amended: the three extra hunts take at most 3 from each genre, so a
\* ready run that is extended stays ready when every genre was at 83 or more
\* and can end not ready otherwise; in the second setup (m = 0) the extension
\* triggers only on runs that are not ready.
C26_ExtensionTakesAtMostThree ==
    (pc = "done" /\ extended) =>
        /\ \A g \in GenreIdx : values[g] >= run_values[g] - 3
        /\ (run_ready /\ \A g \in GenreIdx : run_values[g] >= 83) => ready
        /\ setup_index = 1 => ~run_ready

\* a first-setup run that was ready with a genre at 80 and is no longer ready
\* after the extension
C26_Witness ==
    /\ pc = "done" /\ extended /\ setup_index = 0
    /\ run_ready
    /\ \E g \in GenreIdx : run_values[g] = 80 /\ values[g] = 77
    /\ ~ready

\* C28: a setup whose auto-extend flag is off, or whose page counts in use are
\* all 0, is never extended: it applies the tokens of its sequence and nothing
\* more and returns the vector of the run; an extended setup applies the
\* sequence and exactly three more tokens.
C28_ExtensionOnlyWhenConfigured ==
    pc = "done" =>
        LET used == IF variant = "pruned" /\ custom_counts # <<>>
                    THEN custom_counts ELSE page_vars[setup_index + 1]
        IN  /\ pos = Len(sequences[setup_index + 1]) + 1
            /\ (~auto_extend_var[setup_index + 1] \/ \A g \in GenreIdx : used[g] = 0) =>
                    ~extended
            /\ ~extended =>
                    /\ Len(ext_cheese) = 0
                    /\ values = run_values
                    /\ ready = run_ready
            /\ extended => Len(ext_cheese) = 3 /\ extra = 3

\* a second setup of the pruning variant with the flag on whose counts were
\* all pruned to 0: the run is not ready and still is not extended
C28_Witness ==
    /\ pc = "done" /\ variant = "pruned" /\ setup_index = 1
    /\ auto_extend_var[2]
    /\ \E g \in GenreIdx : page_vars[2][g] > 0
    /\ custom_counts = [g \in GenreIdx |-> 0]
    /\ Len(sequences[2]) > 0
    /\ ~run_ready /\ ~extended
    /\ values = run_values

\* C30: through the steps of a run and of its extension every entry of the
\* vector stays in [0, 200]; a step leaves an entry that was at least 1 at
\* least 1, and leaves an entry at 0 at 0 unless it selects that genre.
C30_EntriesStayInRange ==
    /\ [](\A g \in 1..Len(values) : values[g] >= 0 /\ values[g] <= NOTORIETY_CAP)
    /\ [][(pos' = pos + 1 \/ extra' = extra + 1) /\ Len(values) = NumGenres =>
            \A g \in GenreIdx :
                /\ values[g] >= 1 => values'[g] >= 1
                /\ (values[g] = 0 /\ sel' # g) => values'[g] = 0]_vars

\* an extended run from a vector with entries 0 and 1: a genre never selected
\* is still at 1, another is still at 0, and a selected one is capped at 200
C30_Witness ==
    /\ pc = "done" /\ extended /\ Len(sequences[setup_index + 1]) > 0
    /\ \E g \in GenreIdx : start_values[g] = 1 /\ values[g] = 1
    /\ \E g \in GenreIdx : start_values[g] = 0 /\ values[g] = 0
    /\ \E g \in GenreIdx : values[g] = NOTORIETY_CAP

\* ====================================================== the spend sequencer
\* ------------------------------------------------------------------ bounds
\* each tier count is at most MaxTierCount
MaxTierCount == 3

InitSequencer ==
    /\ pc = "seq_input"
    /\ tier_counts \in [1..Len(CHEESE_VALUES) -> 0..MaxTierCount]
    /\ cheese_sequence = <<>>
    /\ EngineIdle
    /\ DualIdle
    /\ OptIdle
    /\ HeapIdle
    /\ TableIdle
    /\ AggIdle
    /\ CycleIdle

\* cheese_sequence = self._build_cheese_sequence(counts)
BuildSequence ==
    /\ pc = "seq_input"
    /\ cheese_sequence' = BuildCheeseSequence(tier_counts)
    /\ pc' = "seq_built"
    /\ UNCHANGED tier_counts
    /\ UNCHANGED <<engineVars, setupVars, trialVars, optVars, heapVars, tableVars, aggVars, cycleVars>>

NextSequencer == BuildSequence

SpecSequencer == InitSequencer /\ [][NextSequencer]_vars

\* ------------------------------------------------------------------ claims
\* C14: for tier counts (c25, c50, c125) the sequence is c125 times 125, then
\* c50 times 50, then c25 times 25: its length is c25 + c50 + c125 and it
\* never rises.
C14_LargestTokensFirst ==
    pc = "seq_built" =>
        LET c25 == tier_counts[1]
            c50 == tier_counts[2]
            c125 == tier_counts[3]
        IN  /\ Len(cheese_sequence) = c25 + c50 + c125
            /\ \A i \in 1..Len(cheese_sequence) :
                    cheese_sequence[i] =
                        (IF i <= c125 THEN 125 ELSE IF i <= c125 + c50 THEN 50 ELSE 25)
            /\ \A i \in 1..(Len(cheese_sequence) - 1) :
                    cheese_sequence[i] >= cheese_sequence[i + 1]

C14_Witness ==
    /\ pc = "seq_built"
    /\ tier_counts = <<2, 1, 3>>
    /\ cheese_sequence = <<125, 125, 125, 50, 25, 25>>

\* ==================================== the normalizers and the threshold table
\* ------------------------------------------------------- program constants
\* a Python float is an IEEE 754 double: 53 significant bits, every
\* operation rounded to the nearest double, a tie to the even one
MantissaBits == 53

\* ------------------------------------------------------------------ floats
\* A positive float is <<m, e>>: m is the sequence of its MantissaBits
\* significant bits, m[1] = 1, and its value is the sum of m[i] * 2^(e - i).
\* 0.0 is <<<<>>, 0>>.  Only non-negative floats occur.
FZero == << <<>>, 0 >>
FOne == << [i \in 1..MantissaBits |-> IF i = 1 THEN 1 ELSE 0], 1 >>

\* the significant bits plus one unit in the last place
BitsIncrement(bits) ==
    LET zeros == {i \in 1..Len(bits) : bits[i] = 0}
        k == CHOOSE i \in zeros : \A j \in zeros : j <= i
    IN  [i \in 1..Len(bits) |-> IF i < k THEN bits[i] ELSE IF i = k THEN 1 ELSE 0]

\* the double of the given significant bits, rounded up or not
FRounded(bits, e, round_up) ==
    IF ~round_up THEN <<bits, e>>
    ELSE IF \A i \in 1..Len(bits) : bits[i] = 1
         THEN <<[i \in 1..Len(bits) |-> IF i = 1 THEN 1 ELSE 0], e + 1>>
         ELSE <<BitsIncrement(bits), e>>

\* the double nearest to the exact value with the bits `exact` (exact[1] = 1)
\* and exponent e
FRound(exact, e) ==
    IF Len(exact) <= MantissaBits
    THEN <<[i \in 1..MantissaBits |-> IF i <= Len(exact) THEN exact[i] ELSE 0], e>>
    ELSE LET kept == SubSeq(exact, 1, MantissaBits)
             guard == exact[MantissaBits + 1]
             sticky == \E i \in (MantissaBits + 2)..Len(exact) : exact[i] = 1
         IN  FRounded(kept, e, guard = 1 /\ (sticky \/ kept[MantissaBits] = 1))

\* the least k with n * 2^(k + 1) >= d, for 0 < n < d
RECURSIVE LeadingShift(_, _)
LeadingShift(n, d) == IF 2 * n >= d THEN 0 ELSE 1 + LeadingShift(2 * n, d)

RECURSIVE Pow2(_)
Pow2(k) == IF k = 0 THEN 1 ELSE 2 * Pow2(k - 1)

\* long division: the remainder after i bits of n / d, for n < d
RECURSIVE Remainder(_, _, _)
Remainder(n, d, i) == IF i = 0 THEN n ELSE (2 * Remainder(n, d, i - 1)) % d

\* n / d for integers 0 <= n <= d, 0 < d: the correctly rounded quotient
FDiv(n, d) ==
    IF n = 0 THEN FZero
    ELSE IF n = d THEN FOne
    ELSE LET k == LeadingShift(n, d)
             first == n * Pow2(k)
             bits == [i \in 1..MantissaBits |-> (2 * Remainder(first, d, i - 1)) \div d]
             last == Remainder(first, d, MantissaBits)
         IN  FRounded(bits, -k,
                      2 * last > d \/ (2 * last = d /\ bits[MantissaBits] = 1))

\* bit i of x on the grid of the larger exponent, x shifted right by shift
ShiftedBit(x, shift, i) ==
    IF i > shift /\ i - shift <= Len(x[1]) THEN x[1][i - shift] ELSE 0

\* the carry out of position i when the two aligned bit strings are added
RECURSIVE CarryOut(_, _, _, _, _)
CarryOut(hi, lo, shift, i, len) ==
    IF i > len THEN 0
    ELSE (ShiftedBit(hi, 0, i) + ShiftedBit(lo, shift, i)
            + CarryOut(hi, lo, shift, i + 1, len)) \div 2

\* hi + lo for positive floats with hi's exponent not the smaller one
FAddOrdered(hi, lo) ==
    LET shift == hi[2] - lo[2]
        len == MantissaBits + shift
        sum == [i \in 1..len |->
                    (ShiftedBit(hi, 0, i) + ShiftedBit(lo, shift, i)
                        + CarryOut(hi, lo, shift, i + 1, len)) % 2]
    IN  IF CarryOut(hi, lo, shift, 1, len) = 1
        THEN FRound(<<1>> \o sum, hi[2] + 1)
        ELSE FRound(sum, hi[2])

\* a + b
FAdd(a, b) ==
    IF a = FZero THEN b
    ELSE IF b = FZero THEN a
    ELSE IF a[2] >= b[2] THEN FAddOrdered(a, b) ELSE FAddOrdered(b, a)

\* a < b on the significant bits, for equal exponents
BitsLess(x, y) ==
    \E i \in 1..Len(x) :
        /\ x[i] < y[i]
        /\ \A j \in 1..(i - 1) : x[j] = y[j]

\* a <= b
FLeq(a, b) ==
    IF a = FZero THEN TRUE
    ELSE IF b = FZero THEN FALSE
    ELSE IF a[2] # b[2] THEN a[2] < b[2]
    ELSE a[1] = b[1] \/ BitsLess(a[1], b[1])

\* ------------------------------------------------------------ normalizers
\* CheeseAllocator.get_genre_weight_distribution
GetGenreWeightDistribution(counts) ==
    LET total == SumAll(counts)
    IN  IF total = 0
        THEN [g \in GenreIdx |-> RNorm(1, NumGenres)]
        ELSE [g \in GenreIdx |-> RNorm(counts[g], total)]

\* MalletFarmSimulator._weights_from_page_counts
WeightsFromPageCounts(counts) ==
    LET total == SumAll(counts)
    IN  IF total <= 0
        THEN [g \in GenreIdx |-> RNorm(1, NumGenres)]
        ELSE [g \in GenreIdx |-> RNorm(counts[g], total)]

\* get_genre_weight_distribution with the divisions as Python computes them
FloatGenreWeightDistribution(counts) ==
    LET total == SumAll(counts)
    IN  IF total = 0
        THEN [g \in GenreIdx |-> FDiv(1, NumGenres)]
        ELSE [g \in GenreIdx |-> FDiv(counts[g], total)]

\* running = 0.0; running += weights[genre], for the first g genres
RECURSIVE FloatRunning(_, _)
FloatRunning(w, g) ==
    IF g = 0 THEN FZero ELSE FAdd(FloatRunning(w, g - 1), w[g])

\* _prepare_weight_cumulative on floats: the rounded running sums, the last
\* entry overwritten with 1.0
FloatPrepareWeightCumulative(w) ==
    [g \in GenreIdx |-> IF g = NumGenres THEN FOne ELSE FloatRunning(w, g)]

\* ------------------------------------------------------------------ inputs
\* page counts with a zero at either end, the all-zero vector included
RawCountChoices ==
    {c \in [GenreIdx -> {0, 1, 6, 23}] : c[1] = 0 \/ c[NumGenres] = 0}

InitTable ==
    /\ pc = "table_input"
    /\ raw_counts \in RawCountChoices
    /\ normalized = <<>>
    /\ float_weights = <<>>
    /\ float_cumulative = <<>>
    /\ EngineIdle
    /\ DualIdle
    /\ OptIdle
    /\ HeapIdle
    /\ SeqIdle
    /\ AggIdle
    /\ CycleIdle

\* the five normalizers applied to the same counts
Normalize ==
    /\ pc = "table_input"
    /\ normalized' = [single |-> GetGenreWeightDistribution(raw_counts),
                      optimizer |-> WeightsFromCounts(raw_counts),
                      dual |-> GetWeightDistribution(raw_counts),
                      pruned |-> WeightsFromCountsList(raw_counts),
                      cycle |-> WeightsFromPageCounts(raw_counts)]
    /\ float_weights' = FloatGenreWeightDistribution(raw_counts)
    /\ pc' = "normalized"
    /\ UNCHANGED <<raw_counts, float_cumulative>>
    /\ UNCHANGED <<engineVars, setupVars, trialVars, optVars, heapVars, seqVars, aggVars, cycleVars>>

\* cumulative_weights = self._prepare_weight_cumulative()
BuildTable ==
    /\ pc = "normalized"
    /\ float_cumulative' = FloatPrepareWeightCumulative(float_weights)
    /\ pc' = "table_built"
    /\ UNCHANGED <<raw_counts, normalized, float_weights>>
    /\ UNCHANGED <<engineVars, setupVars, trialVars, optVars, heapVars, seqVars, aggVars, cycleVars>>

NextTable == Normalize \/ BuildTable

SpecTable == InitTable /\ [][NextTable]_vars

\* ------------------------------------------------------------------ claims
\* C15: the threshold table built from a normalized distribution has one
\* entry per genre, never falls from one entry to the next, and ends with
\* exactly 1.0.
C15_TableNonDecreasingEndsAtOne ==
    pc = "table_built" =>
        /\ DOMAIN float_cumulative = GenreIdx
        /\ \A g \in 1..(NumGenres - 1) : FLeq(float_cumulative[g], float_cumulative[g + 1])
        /\ float_cumulative[NumGenres] = FOne

\* C16: each of the five normalizers gives every genre count / total when the
\* total is positive and 1 / K when it is 0; the weights are never negative
\* and add up to 1.
C16_NormalizersAgree ==
    pc \in {"normalized", "table_built"} =>
        LET total == SumAll(raw_counts)
        IN  \A n \in {"single", "optimizer", "dual", "pruned", "cycle"} :
                /\ \A g \in GenreIdx :
                        /\ normalized[n][g][1] >= 0
                        /\ normalized[n][g][2] > 0
                        /\ total > 0 =>
                                normalized[n][g][1] * total = raw_counts[g] * normalized[n][g][2]
                        /\ total = 0 => normalized[n][g][1] * NumGenres = normalized[n][g][2]
                /\ Running(normalized[n], NumGenres) = ROne

C16_Witness ==
    /\ pc = "normalized"
    /\ raw_counts = <<0, 6, 23, 1, 0>>
    /\ normalized["dual"][3] = <<23, 30>>
    /\ normalized["cycle"][1] = RZero
    /\ normalized["single"] = normalized["optimizer"]
    /\ normalized["pruned"] = normalized["dual"]

\* =========================================================== the optimizer
\* ------------------------------------------------------------------ bounds
\* the simulations per distribution that are asked for
MaxSims == 1

\* -------------------------------------------------- arithmetic on rationals
RInt(n) == <<n, 1>>
RNeg(a) == <<-a[1], a[2]>>
RSub(a, b) == RAdd(a, RNeg(b))
RDiv(a, b) == IF b[1] < 0 THEN RMul(a, <<-b[2], -b[1]>>) ELSE RMul(a, <<b[2], b[1]>>)
RMax(a, b) == IF RLeq(b, a) THEN a ELSE b

RECURSIVE RSumTo(_, _)
RSumTo(f, n) == IF n = 0 THEN RZero ELSE RAdd(f[n], RSumTo(f, n - 1))

\* sum(candidate)
RSumAll(f) == RSumTo(f, NumGenres)

\* int(x) for x >= 0
RTrunc(a) == a[1] \div a[2]

\* round(x) for x >= 0: to the nearest integer, a tie to the even one
RRound(a) ==
    LET fl == a[1] \div a[2]
        twice == 2 * (a[1] - fl * a[2])
    IN  IF twice < a[2] THEN fl
        ELSE IF twice > a[2] THEN fl + 1
        ELSE IF fl % 2 = 0 THEN fl ELSE fl + 1

\* ------------------------------------------------- the clamped parameters
DialRange == Max(0, range_var)
IterationsUnclamped == iterations_var

Iterations == Max(1, iterations_var)
SimsPerDistribution == Max(1, simulations_var)
CandidateCount == Max(1, candidates_var)

\* base_counts: the page counts, or all ones when they add up to 0
BaseCounts ==
    IF SumAll(genre_page_vars) = 0 THEN [g \in GenreIdx |-> 1] ELSE genre_page_vars

AdaptiveFactorFlat(t) == ROne

\* 0.6 + 0.4 * (1 - iteration / max(1, iterations - 1))
AdaptiveFactor(t) ==
    RAdd(<<3, 5>>, RMul(<<2, 5>>, RSub(ROne, RNorm(t, Max(1, Iterations - 1)))))

CurrentRange(t) == RMax(ROne, RMul(RInt(DialRange), AdaptiveFactor(t)))

CurrentCandidates(t) == Max(3, RTrunc(RMul(RInt(CandidateCount), AdaptiveFactor(t))))

\* the results random.random-based estimation can return: ready_runs / simulations
Estimates == {RNorm(k, SimsPerDistribution) : k \in 0..SimsPerDistribution}

\* ------------------------------------------------------------- candidates
SetEntry(counts, idx, v) == [g \in GenreIdx |-> IF g = idx THEN v ELSE counts[g]]

RECURSIVE SystematicFrom(_, _, _)
SystematicFrom(base, dial, idx) ==
    IF idx > NumGenres THEN <<>>
    ELSE IF RLeq(base[idx], RZero) THEN SystematicFrom(base, dial, idx + 1)
    ELSE << SetEntry(base, idx,
                RMax(RZero, RMul(base[idx], RAdd(ROne, RDiv(dial, RInt(100)))))),
            SetEntry(base, idx,
                RMax(RZero, RMul(base[idx], RSub(ROne, RDiv(dial, RInt(100)))))) >>
         \o SystematicFrom(base, dial, idx + 1)

SystematicCandidates(base, dial) ==
    IF SystematicFrom(base, dial, 1) = <<>> THEN <<base>>
    ELSE SystematicFrom(base, dial, 1)

PositiveIndices(base) ==
    IF {g \in GenreIdx : RLt(RZero, base[g])} = {} THEN GenreIdx
    ELSE {g \in GenreIdx : RLt(RZero, base[g])}

SubsetSize(base) == Max(1, (Cardinality(PositiveIndices(base)) + 1) \div 2)

\* the index sets random.sample can return
Selections(base) ==
    IF Cardinality(PositiveIndices(base)) > SubsetSize(base)
    THEN {sub \in SUBSET PositiveIndices(base) : Cardinality(sub) = SubsetSize(base)}
    ELSE {PositiveIndices(base)}

\* random.uniform(-a, a) is sampled at -a, 0 and a
UniformChoices == {-1, 0, 1}

\* _generate_candidate_counts once the subset and the uniform samples are drawn
GenerateCandidateCounts(base, dial, bias, selected, draws) ==
    [g \in GenreIdx |->
        IF g \in selected
        THEN LET delta == RAdd(RMul(RInt(draws[g]), RDiv(dial, RInt(100))),
                               RMul(bias[g], <<1, 10>>))
             IN  RMax(RZero, RMul(base[g], RAdd(ROne, delta)))
        ELSE base[g]]

\* ---------------------------------------------------- ranking and blending
\* the position of x in a list sorted by falling probability: after every
\* entry whose probability is not smaller (the sort is stable)
RECURSIVE KeepBefore(_, _)
KeepBefore(sorted, x) ==
    IF sorted = <<>> THEN 0
    ELSE IF RLeq(x.prob, Head(sorted).prob) THEN 1 + KeepBefore(Tail(sorted), x)
    ELSE 0

RECURSIVE SortDescending(_)
SortDescending(results) ==
    IF results = <<>> THEN <<>>
    ELSE LET front == SortDescending(SubSeq(results, 1, Len(results) - 1))
             x == results[Len(results)]
             k == KeepBefore(front, x)
         IN  SubSeq(front, 1, k) \o <<x>> \o SubSeq(front, k + 1, Len(front))

RankedWithoutBest(cands, probs, current_counts, current_prob) ==
    SortDescending([i \in 1..Len(cands) |-> [prob |-> probs[i], counts |-> cands[i]]])

\* the evaluated candidates and the current best, sorted by falling probability
RankedResults(cands, probs, current_counts, current_prob) ==
    SortDescending(
        [i \in 1..Len(cands) |-> [prob |-> probs[i], counts |-> cands[i]]]
            \o <<[prob |-> current_prob, counts |-> current_counts]>>)

TopResults(ranked) == SubSeq(ranked, 1, Min(3, Len(ranked)))

RECURSIVE ProbSum(_, _)
ProbSum(results, n) ==
    IF n = 0 THEN RZero ELSE RAdd(results[n].prob, ProbSum(results, n - 1))

RECURSIVE BlendEntry(_, _, _)
BlendEntry(results, g, n) ==
    IF n = 0 THEN RZero
    ELSE RAdd(BlendEntry(results, g, n - 1),
              RMul(results[n].counts[g],
                   RDiv(results[n].prob, ProbSum(results, Len(results)))))

BlendTopCandidates(results) ==
    IF ProbSum(results, Len(results)) = RZero THEN results[1].counts
    ELSE [g \in GenreIdx |-> BlendEntry(results, g, Len(results))]

UpdateDirectionBias(bias, previous_counts, new_counts) ==
    [g \in GenreIdx |->
        IF new_counts[g] = previous_counts[g] THEN RMul(bias[g], <<9, 10>>)
        ELSE RAdd(RMul(<<7, 10>>, bias[g]),
                  RMul(<<3, 10>>,
                       IF RLt(previous_counts[g], new_counts[g]) THEN RInt(1) ELSE RInt(-1)))]

\* ---------------------------------------------------------------- actions
OthersIdle == UNCHANGED <<engineVars, setupVars, trialVars, heapVars, extVars>>

\* the code before the loop: base_counts, the clamped parameters and the
\* first estimate
StartOptimization ==
    /\ pc = "opt_start"
    /\ best_counts' = [g \in GenreIdx |-> RInt(BaseCounts[g])]
    /\ best_prob' \in Estimates
    /\ direction_bias' = [g \in GenreIdx |-> RZero]
    /\ iteration' = 0
    /\ candidates' = <<>>
    /\ prob_trace' = <<best_prob'>>
    /\ evaluated' = <<best_counts'>>
    /\ pc' = "opt_iterate"
    /\ UNCHANGED <<optInputs, current_range, current_candidates>>
    /\ OthersIdle

\* the head of an iteration: the schedule and the systematic candidates
BeginIteration ==
    /\ pc = "opt_iterate"
    /\ iteration < Iterations
    /\ current_range' = CurrentRange(iteration)
    /\ current_candidates' = CurrentCandidates(iteration)
    /\ candidates' = SystematicCandidates(best_counts, CurrentRange(iteration))
    /\ pc' = "opt_generate"
    /\ UNCHANGED <<optInputs, best_counts, best_prob, direction_bias, iteration, prob_trace,
                   evaluated>>
    /\ OthersIdle

\* one pass of the while loop: a candidate is generated and is appended
\* unless its counts add up to 0
GenerateCandidate ==
    /\ pc = "opt_generate"
    /\ Len(candidates) < CurrentCandidates(iteration)
    /\ \E selected \in Selections(best_counts) :
        \E draws \in [selected -> UniformChoices] :
            LET candidate == GenerateCandidateCounts(
                    best_counts, CurrentRange(iteration), direction_bias, selected, draws)
            IN  IF RSumAll(candidate) = RZero
                THEN UNCHANGED candidates
                ELSE candidates' = Append(candidates, candidate)
    /\ UNCHANGED <<pc, optInputs, best_counts, best_prob, direction_bias, iteration,
                   prob_trace, optLocals>>
    /\ OthersIdle

\* the rest of the iteration: every candidate is estimated, the results are
\* ranked, the top three blended, the blend estimated, the best adopted and
\* the direction bias updated
EvaluateAndAdopt ==
    /\ pc = "opt_generate"
    /\ Len(candidates) >= CurrentCandidates(iteration)
    /\ \E probs \in [1..Len(candidates) -> Estimates], blended_prob \in Estimates :
        LET top_results == TopResults(RankedResults(candidates, probs, best_counts, best_prob))
            blended_counts == BlendTopCandidates(top_results)
            adopted == IF RLeq(top_results[1].prob, blended_prob)
                       THEN [prob |-> blended_prob, counts |-> blended_counts]
                       ELSE top_results[1]
        IN  /\ best_counts' = adopted.counts
            /\ best_prob' = adopted.prob
            /\ direction_bias' = UpdateDirectionBias(direction_bias, best_counts, adopted.counts)
            /\ prob_trace' = Append(prob_trace, adopted.prob)
            /\ evaluated' = Append(candidates, blended_counts)
    /\ iteration' = iteration + 1
    /\ candidates' = <<>>
    /\ pc' = "opt_iterate"
    /\ UNCHANGED <<optInputs, current_range, current_candidates>>
    /\ OthersIdle

\* after the loop: the rounded counts are written back to the page entries
FinishOptimization ==
    /\ pc = "opt_iterate"
    /\ iteration >= Iterations
    /\ genre_page_vars' = [g \in GenreIdx |-> RRound(best_counts[g])]
    /\ pc' = "opt_done"
    /\ UNCHANGED <<range_var, iterations_var, simulations_var, candidates_var>>
    /\ UNCHANGED <<best_counts, best_prob, direction_bias, iteration, candidates, prob_trace,
                   optLocals>>
    /\ OthersIdle

\* ------------------------------------------------------------------ inputs
PageVarChoices ==
    {[g \in GenreIdx |-> IF g = 1 THEN 5 ELSE 0],
     [g \in GenreIdx |-> IF g = 2 THEN 2 ELSE IF g = 4 THEN 1 ELSE 0]}

RangeChoices == {20, 100}

\* the exact rationals of the counts stay within TLC's integers for two
\* iterations
IterationChoices == {1, 2}

\* <<range, iterations, simulations, candidates>>: positive values, and the
\* entries with one of the four at 0
ParameterChoices ==
    (RangeChoices \X IterationChoices \X (1..MaxSims) \X {3})
        \cup {<<0, 1, 1, 3>>, <<20, 0, 1, 3>>, <<20, 1, 0, 3>>, <<20, 1, 1, 0>>,
              <<0, 0, 0, 0>>}

InitOpt ==
    /\ pc = "opt_start"
    /\ genre_page_vars \in PageVarChoices
    /\ \E p \in ParameterChoices :
        /\ range_var = p[1]
        /\ iterations_var = p[2]
        /\ simulations_var = p[3]
        /\ candidates_var = p[4]
    /\ best_counts = <<>>
    /\ best_prob = RZero
    /\ direction_bias = <<>>
    /\ iteration = 0
    /\ candidates = <<>>
    /\ prob_trace = <<>>
    /\ current_range = RZero
    /\ current_candidates = 0
    /\ evaluated = <<>>
    /\ values = <<>>
    /\ prev = <<>>
    /\ cheese = 0
    /\ roll = RZero
    /\ sel = 0
    /\ cumulative = <<>>
    /\ weights = <<>>
    /\ DualIdle
    /\ HeapIdle
    /\ ExtIdle

NextOpt ==
    \/ StartOptimization
    \/ BeginIteration
    \/ GenerateCandidate
    \/ EvaluateAndAdopt
    \/ FinishOptimization

SpecOpt == InitOpt /\ [][NextOpt]_vars

\* ------------------------------------------------------------------ claims
\* C2: best_prob never decreases: its value after each iteration is at least
\* its value after the iteration before, and after the first iteration at
\* least the estimate of the base counts.
C2_BestProbMonotone ==
    \A i \in 1..Len(prob_trace) : \A j \in i..Len(prob_trace) :
        prob_trace[i][1] * prob_trace[j][2] <= prob_trace[j][1] * prob_trace[i][2]

C2_Witness ==
    /\ pc = "opt_done"
    /\ Len(prob_trace) = 3
    /\ RLt(prob_trace[1], prob_trace[2])
    /\ prob_trace[3] = prob_trace[2]

\* C3: the optimization ends after exactly the asked number of iterations,
\* and the candidate loop of every iteration exits under fair sampling: in
\* every state of the loop that still lacks candidates, some sample yields a
\* candidate that is kept.
C3_CandidateLoopExits ==
    /\ pc = "opt_done" => iteration = Iterations
    /\ (pc = "opt_generate" /\ Len(candidates) < CurrentCandidates(iteration)) =>
            \E selected \in Selections(best_counts) :
                \E draws \in [selected -> UniformChoices] :
                    RSumAll(GenerateCandidateCounts(
                        best_counts, CurrentRange(iteration), direction_bias,
                        selected, draws)) # RZero

\* C17: every vector of counts handed to the Aggregator for evaluation (the
\* base counts, the systematic, the randomized and the blended candidates)
\* has a total strictly above 0.
C17_NoZeroTotalEvaluated ==
    \A i \in 1..Len(evaluated) : RLt(RZero, RSumAll(evaluated[i]))

\* C29: throughout the optimization best_counts has no negative entry and a
\* total strictly above 0.
C29_BestCountsPositiveTotal ==
    pc \in {"opt_generate", "opt_iterate", "opt_done"} =>
        /\ \A g \in GenreIdx : RLeq(RZero, best_counts[g])
        /\ RLt(RZero, RSumAll(best_counts))

\* C18 as stated: with 0 given for a search parameter the range used for
\* perturbation is 1, the loop runs once, the number of candidates of an
\* iteration is 1 and the estimates come from one sample.
C18_ZeroClampedToOne ==
    /\ (range_var = 0 /\ pc = "opt_generate") => current_range = ROne
    /\ (iterations_var = 0 /\ pc = "opt_done") => iteration = 1 /\ Len(prob_trace) = 2
    /\ (candidates_var = 0 /\ pc = "opt_generate") => current_candidates = 1
    /\ simulations_var = 0 => \A i \in 1..Len(prob_trace) : prob_trace[i] \in {RZero, ROne}

\* C18 amended: as stated for the range, the iterations and the samples; the
\* candidate count 0 is clamped to 1 and the schedule max(3, int(1 * f)) then
\* asks for 3 candidates, so at least 3 are evaluated before the blend.
C18_ZeroParameters ==
    /\ (range_var = 0 /\ pc = "opt_generate") => current_range = ROne
    /\ (iterations_var = 0 /\ pc = "opt_done") => iteration = 1 /\ Len(prob_trace) = 2
    /\ (candidates_var = 0 /\ pc = "opt_generate") => current_candidates = 3
    /\ (candidates_var = 0 /\ pc = "opt_iterate" /\ iteration > 0) => Len(evaluated) >= 3 + 1
    /\ simulations_var = 0 => \A i \in 1..Len(prob_trace) : prob_trace[i] \in {RZero, ROne}

C18_Witness ==
    /\ pc = "opt_done"
    /\ range_var = 0 /\ iterations_var = 0 /\ simulations_var = 0 /\ candidates_var = 0
    /\ iteration = 1
    /\ current_range = ROne
    /\ current_candidates = 3
    /\ prob_trace = <<RZero, ROne>>

\* C22 as stated: for every iteration count T >= 1 the factor is 1.0 in
\* iteration 0 and 0.6 in iteration T - 1, seen in the range max(1, range * f)
\* and in the count max(3, int(candidates * f)) of the iteration, and neither
\* grows from one iteration to the next.
C22_CoolingOneToSixTenths ==
    /\ [](pc = "opt_generate" =>
            /\ iteration = 0 =>
                    /\ current_range = RMax(ROne, RInt(Max(0, range_var)))
                    /\ current_candidates = Max(3, Max(1, candidates_var))
            /\ iteration = Max(1, iterations_var) - 1 =>
                    /\ current_range = RMax(ROne, RNorm(3 * Max(0, range_var), 5))
                    /\ current_candidates = Max(3, (3 * Max(1, candidates_var)) \div 5))
    /\ [][pc = "opt_iterate" /\ pc' = "opt_generate" /\ iteration > 0 =>
            /\ RLeq(current_range', current_range)
            /\ current_candidates' <= current_candidates]_vars

\* C22 amended: the factor is 1.0 in iteration 0 for every T >= 1 and 0.6 in
\* iteration T - 1 for every T >= 2; with T = 1 the only iteration is the
\* first one and runs at 1.0.  Neither the range nor the count grows from one
\* iteration to the next.
C22_CoolingSchedule ==
    /\ [](pc = "opt_generate" =>
            /\ iteration = 0 =>
                    /\ current_range = RMax(ROne, RInt(Max(0, range_var)))
                    /\ current_candidates = Max(3, Max(1, candidates_var))
            /\ (Max(1, iterations_var) >= 2 /\ iteration = Max(1, iterations_var) - 1) =>
                    /\ current_range = RMax(ROne, RNorm(3 * Max(0, range_var), 5))
                    /\ current_candidates = Max(3, (3 * Max(1, candidates_var)) \div 5))
    /\ [][pc = "opt_iterate" /\ pc' = "opt_generate" /\ iteration > 0 =>
            /\ RLeq(current_range', current_range)
            /\ current_candidates' <= current_candidates]_vars

\* the second of two iterations perturbs within 12 where the first used 20
C22_Witness ==
    /\ pc = "opt_generate"
    /\ iterations_var = 2
    /\ iteration = 1
    /\ range_var = 20
    /\ current_range = <<12, 1>>

\* ====================================================== the Monte Carlo loops
\* ------------------------------------------------------------------ bounds
\* the loops run at most MaxRuns trials (runs = 100000, MULTI_RUNS = 50000 and
\* sims_per_distribution in the code)
MaxRuns == 2

\* ------------------------------------------------------- program constants
THRESHOLD_BREAKPOINTS == <<80, 90, 93>>

AboveOrEqualCount(vals, threshold) ==
    Cardinality({g \in GenreIdx : vals[g] >= threshold})

\* above_count = sum(1 for val in values if val > threshold)
AboveCount(vals, threshold) ==
    Cardinality({g \in GenreIdx : vals[g] > threshold})

\* the locals of one setup execution, before it starts
ResetExecution ==
    /\ pos' = 0
    /\ run_values' = <<>>
    /\ run_ready' = FALSE
    /\ extended' = FALSE
    /\ switch_to_medium' = FALSE
    /\ extra' = 0
    /\ ext_cheese' = <<>>
    /\ ext_at' = <<>>
    /\ ready' = FALSE

\* the code before the first run: the table of the single-stage callers and
\* the accumulators at zero
StartSimulation ==
    /\ pc = "start"
    /\ stage_cumulative' =
            (IF variant = "single"
             THEN PrepareWeightCumulative(GetGenreWeightDistribution(page_vars[1]))
             ELSE IF variant = "optimizer"
                  THEN PrepareWeightCumulative(WeightsFromCounts(page_vars[1]))
                  ELSE stage_cumulative)
    /\ totals' = [g \in GenreIdx |-> 0]
    /\ ready_runs' = 0
    /\ threshold_counts' =
            [b \in 1..Len(THRESHOLD_BREAKPOINTS) |-> [k \in 0..NumGenres |-> 0]]
    /\ extend_counts' = <<0, 0>>
    /\ total_extensions' = 0
    /\ pc' = "trial"
    /\ UNCHANGED <<variant, setup_index, page_vars, auto_extend_var, extend_var, sequences,
                   start_values, custom_counts>>
    /\ UNCHANGED <<base_notoriety, run_limit, runs_done, displayed>>
    /\ UNCHANGED <<engineVars, trialVars, optVars, heapVars, seqVars, tableVars, cycleVars>>

\* a single-stage caller enters _simulate_sequence(base_notoriety, ...)
BeginRun ==
    /\ pc = "trial"
    /\ variant \in {"single", "optimizer"}
    /\ given_ref' = 1
    /\ values_ref' = ListCopy(1, 2)
    /\ heap' = [heap EXCEPT ![values_ref'] = heap[1]]
    /\ values' = heap[1]
    /\ start_values' = heap[1]
    /\ pos' = 1
    /\ run_values' = <<>>
    /\ run_ready' = FALSE
    /\ pc' = "sim"
    /\ UNCHANGED <<prev, cheese, roll, sel, cumulative, weights>>
    /\ UNCHANGED <<variant, setup_index, page_vars, auto_extend_var, extend_var, sequences,
                   stage_cumulative, custom_counts>>
    /\ UNCHANGED <<extended, switch_to_medium, extra, ext_cheese, ext_at, ready>>
    /\ UNCHANGED <<optVars, extVars>>

\* one iteration of the loop of _simulate_sequence, for a single-stage caller
SimulateStep ==
    /\ pc = "sim"
    /\ pos <= Len(sequences[1])
    /\ ApplyHuntStep(sequences[1][pos], stage_cumulative)
    /\ heap' = [heap EXCEPT ![values_ref] = values']
    /\ UNCHANGED <<given_ref, values_ref>>
    /\ pos' = pos + 1
    /\ UNCHANGED <<pc, weights, setupVars>>
    /\ UNCHANGED <<run_values, run_ready, extended, switch_to_medium, extra,
                   ext_cheese, ext_at, ready>>
    /\ UNCHANGED <<optVars, extVars>>

\* _simulate_sequence returns (values, ready) and the caller accumulates; the
\* run before the loop of _run_hunt_simulation is only displayed
EndRun ==
    /\ pc = "sim"
    /\ pos > Len(sequences[1])
    /\ run_values' = values
    /\ run_ready' = AllReady(values)
    /\ IF ~displayed
       THEN /\ displayed' = TRUE
            /\ pc' = "trial"
            /\ UNCHANGED <<runs_done, totals, ready_runs, threshold_counts>>
       ELSE /\ ready_runs' = ready_runs + (IF AllReady(values) THEN 1 ELSE 0)
            /\ IF variant = "single"
               THEN /\ totals' = [g \in GenreIdx |-> totals[g] + values[g]]
                    /\ threshold_counts' =
                         [b \in 1..Len(THRESHOLD_BREAKPOINTS) |->
                            [k \in 0..NumGenres |->
                                threshold_counts[b][k]
                                    + (IF k = AboveCount(values, THRESHOLD_BREAKPOINTS[b])
                                       THEN 1 ELSE 0)]]
               ELSE UNCHANGED <<totals, threshold_counts>>
            /\ runs_done' = runs_done + 1
            /\ pc' = (IF runs_done + 1 = run_limit THEN "finished" ELSE "trial")
            /\ UNCHANGED displayed
    /\ UNCHANGED <<base_notoriety, run_limit, extend_counts, total_extensions>>
    /\ UNCHANGED <<engineVars, setupVars, heapVars, optVars, seqVars, tableVars, cycleVars>>
    /\ UNCHANGED <<pos, extended, switch_to_medium, extra, ext_cheese, ext_at, ready>>

\* a two-stage trial begins: the displayed one hands base_notoriety itself to
\* the first setup, a trial of the loop hands start_values = list(base_notoriety)
BeginTrial ==
    /\ pc = "trial"
    /\ variant \in {"plain", "pruned"}
    /\ IF ~displayed
       THEN /\ given_ref' = 1
            /\ UNCHANGED heap
       ELSE /\ given_ref' = 2
            /\ heap' = [heap EXCEPT ![2] = heap[1]]
    /\ values_ref' = 0
    /\ setup_index' = 0
    /\ start_values' = heap[1]
    /\ ResetExecution
    /\ pc' = "prepare"
    /\ UNCHANGED <<variant, page_vars, auto_extend_var, extend_var, sequences,
                   stage_cumulative, custom_counts>>
    /\ UNCHANGED <<engineVars, optVars, extVars>>

NextStageFromBase ==
    /\ pc = "done"
    /\ setup_index = 0
    /\ IF displayed /\ extended
       THEN /\ extend_counts' = [extend_counts EXCEPT ![1] = @ + 1]
            /\ total_extensions' = total_extensions + 1
       ELSE UNCHANGED <<extend_counts, total_extensions>>
    /\ given_ref' = 1
    /\ start_values' = heap[1]
    /\ setup_index' = 1
    /\ ResetExecution
    /\ pc' = "prepare"
    /\ UNCHANGED <<heap, values_ref>>
    /\ UNCHANGED <<variant, page_vars, auto_extend_var, extend_var, sequences,
                   stage_cumulative, custom_counts>>
    /\ UNCHANGED <<base_notoriety, run_limit, runs_done, displayed, totals, ready_runs,
                   threshold_counts>>
    /\ UNCHANGED <<engineVars, optVars, seqVars, tableVars, cycleVars>>

\* the first setup returned (mid_values, _, ext1): its extension is counted and
\* mid_values is handed to the second setup
NextStage ==
    /\ pc = "done"
    /\ setup_index = 0
    /\ IF displayed /\ extended
       THEN /\ extend_counts' = [extend_counts EXCEPT ![1] = @ + 1]
            /\ total_extensions' = total_extensions + 1
       ELSE UNCHANGED <<extend_counts, total_extensions>>
    /\ given_ref' = values_ref
    /\ start_values' = heap[values_ref]
    /\ setup_index' = 1
    /\ ResetExecution
    /\ pc' = "prepare"
    /\ UNCHANGED <<heap, values_ref>>
    /\ UNCHANGED <<variant, page_vars, auto_extend_var, extend_var, sequences,
                   stage_cumulative, custom_counts>>
    /\ UNCHANGED <<base_notoriety, run_limit, runs_done, displayed, totals, ready_runs,
                   threshold_counts>>
    /\ UNCHANGED <<engineVars, optVars, seqVars, tableVars, cycleVars>>

\* the second setup returned (end_values, run_ready, ext2): the trial is
\* accumulated, unless it is the displayed one
EndTrial ==
    /\ pc = "done"
    /\ setup_index = 1
    /\ IF ~displayed
       THEN /\ displayed' = TRUE
            /\ pc' = "trial"
            /\ UNCHANGED <<runs_done, totals, ready_runs, extend_counts, total_extensions>>
       ELSE /\ IF extended
               THEN /\ extend_counts' = [extend_counts EXCEPT ![2] = @ + 1]
                    /\ total_extensions' = total_extensions + 1
               ELSE UNCHANGED <<extend_counts, total_extensions>>
            /\ ready_runs' = ready_runs + (IF ready THEN 1 ELSE 0)
            /\ totals' = [g \in GenreIdx |-> totals[g] + heap[values_ref][g]]
            /\ runs_done' = runs_done + 1
            /\ pc' = (IF runs_done + 1 = run_limit THEN "finished" ELSE "trial")
            /\ UNCHANGED displayed
    /\ UNCHANGED <<base_notoriety, run_limit, threshold_counts>>
    /\ UNCHANGED <<engineVars, setupVars, trialVars, heapVars, optVars, seqVars, tableVars, cycleVars>>

\* ------------------------------------------------------------------ inputs
\* starting vectors around the readiness threshold and the breakpoints
BaseChoices == {<<80, 81, 90, 91, 94>>, <<79, 80, 93, 94, 200>>}

\* the page counts and the auto-extend flags of the two setups, with one top
\* genre or two genres tied for the top, and the tier counts of the first setup
\* they are run with
DualChoices ==
    LET OneTop == [g \in GenreIdx |-> IF g = 1 THEN 2 ELSE 0]
        TwoTop == [g \in GenreIdx |-> IF g <= 2 THEN 1 ELSE 0]
    IN  {[pages |-> <<OneTop, OneTop>>, auto |-> <<TRUE, TRUE>>, tiers |-> TierCounts],
         [pages |-> <<TwoTop, OneTop>>, auto |-> <<FALSE, TRUE>>, tiers |-> TierCounts],
         [pages |-> <<OneTop, TwoTop>>, auto |-> <<TRUE, FALSE>>, tiers |-> TierCounts],
         [pages |-> <<TwoTop, OneTop>>, auto |-> <<TRUE, TRUE>>, tiers |-> {<<0, 0, 1>>}]}

InitTrials ==
    /\ pc = "start"
    /\ variant \in {"single", "optimizer", "plain", "pruned"}
    /\ base_notoriety \in BaseChoices
    /\ heap = [o \in ObjIds |-> IF o = 1 THEN base_notoriety ELSE <<>>]
    /\ given_ref = 0
    /\ values_ref = 0
    /\ run_limit \in 1..MaxRuns
    /\ runs_done = 0
    /\ displayed = (variant = "optimizer")
    /\ \E c \in TierCounts :
        IF variant \in {"single", "optimizer"}
        THEN /\ sequences = <<BuildCheeseSequence(c), <<>> >>
             /\ \E p \in PageCountChoices : page_vars = <<p, ZeroPages>>
             /\ auto_extend_var = <<FALSE, FALSE>>
             /\ extend_var = <<FALSE, FALSE>>
        ELSE /\ sequences = <<BuildCheeseSequence(c), BuildCheeseSequence(<<c[3], c[2], c[1]>>)>>
             /\ \E d \in DualChoices :
                    /\ c \in d.tiers
                    /\ page_vars = d.pages
                    /\ auto_extend_var = d.auto
             /\ \E e \in BOOLEAN :
                    /\ variant = "plain" => e = FALSE
                    /\ extend_var = <<FALSE, e>>
    /\ setup_index = 0
    /\ start_values = <<>>
    /\ stage_cumulative = <<>>
    /\ custom_counts = <<>>
    /\ EngineIdle
    /\ pos = 0
    /\ run_values = <<>>
    /\ run_ready = FALSE
    /\ extended = FALSE
    /\ switch_to_medium = FALSE
    /\ extra = 0
    /\ ext_cheese = <<>>
    /\ ext_at = <<>>
    /\ ready = FALSE
    /\ totals = <<>>
    /\ ready_runs = 0
    /\ threshold_counts = <<>>
    /\ extend_counts = <<>>
    /\ total_extensions = 0
    /\ OptIdle
    /\ SeqIdle
    /\ TableIdle
    /\ CycleIdle

NextTrials ==
    \/ StartSimulation
    \/ BeginRun
    \/ SimulateStep
    \/ EndRun
    \/ BeginTrial
    \/ PrepareSetup
    \/ SequenceStep
    \/ DecideExtension
    \/ ExtensionStep
    \/ NextStage
    \/ EndTrial

SpecTrials == InitTrials /\ [][NextTrials]_vars

\* ------------------------------------------------------------------ claims
\* C12: _simulate_sequence never mutates the starting vector it is given: the
\* caller's base_notoriety is the same after any number of trials of the
\* single-stage, optimizer, two-stage and pruning loops, the list handed to a
\* call still holds what it held when it was handed over, and every trial
\* starts its first sequence from base_notoriety.
C12_StartingVectorNeverMutated ==
    /\ heap[1] = base_notoriety
    /\ given_ref # 0 => heap[given_ref] = start_values
    /\ (pc \in {"sim", "run"} /\ setup_index = 0 /\ pos = 1) =>
            values = base_notoriety

\* the loop is over after MaxRuns trials whose last one moved its own copy
C12_Witness ==
    /\ pc = "finished"
    /\ runs_done = MaxRuns
    /\ heap[values_ref] # base_notoriety
    /\ heap[1] = base_notoriety

\* C13: with an empty spend sequence _simulate_sequence returns a vector equal
\* to the one it was given and a readiness flag equal to "every given entry is
\* at least 80".
C13_EmptySequenceReturnsInput ==
    (run_values # <<>> /\ sequences[setup_index + 1] = <<>>) =>
        /\ run_values = start_values
        /\ run_ready = (\A g \in GenreIdx : start_values[g] >= 80)

\* a call with no token returned ready from a vector that holds exactly 80
C13_Witness ==
    /\ run_values # <<>>
    /\ sequences[setup_index + 1] = <<>>
    /\ \E g \in GenreIdx : start_values[g] = 80
    /\ run_ready

\* C19: after n trials of the loop of _run_hunt_simulation the readiness count
\* lies in 0..n with n at most N, for each breakpoint 80, 90, 93 the K+1
\* buckets sum to n, and a trial adds one to exactly the bucket indexed by the
\* number of categories whose final value is strictly above the breakpoint.
C19_AggregatorCounts ==
    /\ [](variant = "single" /\ pc # "start" =>
            /\ runs_done \in 0..run_limit
            /\ ready_runs \in 0..runs_done
            /\ \A b \in 1..3 :
                    /\ DOMAIN threshold_counts[b] = 0..NumGenres
                    /\ threshold_counts[b][0]
                        + SumTo(threshold_counts[b], NumGenres) = runs_done)
    /\ [][variant = "single" /\ runs_done' = runs_done + 1 =>
            \A b \in 1..3 : \A k \in 0..NumGenres :
                threshold_counts'[b][k] = threshold_counts[b][k] +
                    (IF k = Cardinality({g \in GenreIdx :
                                values[g] > <<80, 90, 93>>[b]})
                     THEN 1 ELSE 0)]_vars

\* every trial ended on 80, 81, 90, 91, 94: four above 80, two above 90, one
\* above 93
C19_Witness ==
    /\ variant = "single"
    /\ pc = "finished"
    /\ runs_done = MaxRuns
    /\ ready_runs = MaxRuns
    /\ threshold_counts[1][4] = MaxRuns
    /\ threshold_counts[2][2] = MaxRuns
    /\ threshold_counts[3][1] = MaxRuns

\* C23: in every two-stage trial the second setup starts from exactly the
\* vector the first returned (its extension steps included), each setup steps
\* through its own sequence with the table of its own page counts (the pruned
\* ones for the second setup of the pruning variant), the readiness counted for
\* the trial is that of the second setup's final vector, and a setup's
\* extension counter goes up by one exactly when that setup applied its extra
\* hunts, so that no counter exceeds the number of trials.
C23_TwoStagePipeline ==
    /\ [](variant \in {"plain", "pruned"} /\ pc \in {"trial", "finished"} =>
            /\ extend_counts[1] \in 0..runs_done
            /\ extend_counts[2] \in 0..runs_done
            /\ total_extensions = extend_counts[1] + extend_counts[2]
            /\ ready_runs \in 0..runs_done)
    /\ [][setup_index = 0 /\ setup_index' = 1 =>
            /\ start_values' = values
            /\ extend_counts' =
                    IF displayed /\ extra > 0
                    THEN [extend_counts EXCEPT ![1] = @ + 1] ELSE extend_counts]_vars
    /\ [][pc = "prepare" /\ pc' = "run" /\ setup_index = 1 => values' = start_values]_vars
    /\ [][pc = "run" /\ pos' = pos + 1 =>
            /\ cheese' = sequences[setup_index + 1][pos]
            /\ cumulative' =
                    IF variant = "pruned" /\ setup_index = 1
                    THEN PrepareWeightCumulative(WeightsFromCountsList(
                            [g \in GenreIdx |->
                                IF start_values[g] > (IF extend_var[2] THEN 93 ELSE 90)
                                THEN 0 ELSE page_vars[2][g]]))
                    ELSE PrepareWeightCumulative(
                            GetWeightDistribution(page_vars[setup_index + 1]))]_vars
    /\ [][runs_done' = runs_done + 1 /\ variant \in {"plain", "pruned"} =>
            /\ setup_index = 1
            /\ ready_runs' = ready_runs
                    + (IF \A g \in GenreIdx : values[g] >= 80 THEN 1 ELSE 0)
            /\ extend_counts' =
                    IF extra > 0
                    THEN [extend_counts EXCEPT ![2] = @ + 1] ELSE extend_counts]_vars

\* a pruning run of one 125 and then one 25 in which the first setup was
\* extended in every trial and the second never
C23_Witness ==
    /\ variant = "pruned"
    /\ pc = "finished"
    /\ runs_done = MaxRuns
    /\ extend_counts = <<MaxRuns, 0>>
    /\ total_extensions = MaxRuns
    /\ sequences = << <<125>>, <<25>> >>
    /\ start_values # base_notoriety

\* ========================================================= the cycle economy
\* ------------------------------------------------------------------ bounds
\* the number of cycles asked for is at most MaxCycles
MaxCycles == 2

\* ------------------------------------------------------- program constants
\* for idx in range(6): the chapters of one run
NumChapters == 6

\* hunts_needed = random.choice((10, 20, 30)) if idx == 0 else 10
ChapterHunts(draw, idx) == IF idx = 1 THEN draw.first ELSE 10

RECURSIVE PagesUpTo(_, _, _)
PagesUpTo(draw, g, idx) ==
    IF idx = 0 THEN 0
    ELSE PagesUpTo(draw, g, idx - 1)
            + (IF draw.genres[idx] = g THEN (ChapterHunts(draw, idx) \div 10) * 250 ELSE 0)

\* pages[genre_idx] += (hunts_needed // 10) * 250, over the six chapters
PagesOfDraw(draw) == [g \in GenreIdx |-> PagesUpTo(draw, g, NumChapters)]

RECURSIVE HuntsUpTo(_, _)
HuntsUpTo(draw, idx) ==
    IF idx = 0 THEN 0 ELSE HuntsUpTo(draw, idx - 1) + ChapterHunts(draw, idx)

\* _build_mallet_cheese_sequence: the 50s, then the 125s
BuildMalletCheeseSequence(mid, high) ==
    [i \in 1..(mid + high) |-> IF i <= mid THEN 50 ELSE 125]

CycleCompleteAtLeast(vals) == \A g \in GenreIdx : vals[g] >= 80

\* all(value > 80 for value in notoriety)
CycleComplete(vals) == \A g \in GenreIdx : vals[g] > 80

\* for _ in range(cycles): notoriety = [0] * len(GENRES); runs = 0; hunts = 0
BeginCycle ==
    /\ pc = "cycle"
    /\ cycle_index < cycles
    /\ values' = [g \in GenreIdx |-> 0]
    /\ runs' = 0
    /\ hunts' = 0
    /\ pc' = "run_start"
    /\ UNCHANGED <<prev, cheese, roll, sel, cumulative, weights>>
    /\ UNCHANGED <<cycles, cheese_mid, cheese_high, chapter_tape, cycle_index, total_runs,
                   total_hunts, last_cycle_runs, last_cycle_hunts, pages, run_hunts>>
    /\ UNCHANGED <<setupVars, trialVars, optVars, heapVars, seqVars, tableVars, aggVars>>

\* _simulate_single_run up to its loop over the sequence: the chapter draws,
\* the pages, the sequence and the threshold table
BeginSingleRun ==
    /\ pc = "run_start"
    /\ runs < Len(chapter_tape)
    /\ LET draw == chapter_tape[runs + 1]
       IN  /\ pages' = PagesOfDraw(draw)
           /\ run_hunts' = HuntsUpTo(draw, NumChapters)
                            + Len(BuildMalletCheeseSequence(cheese_mid, cheese_high))
           /\ weights' = WeightsFromPageCounts(PagesOfDraw(draw))
           /\ cumulative' = PrepareWeightCumulative(WeightsFromPageCounts(PagesOfDraw(draw)))
    /\ pos' = 1
    /\ pc' = "hunting"
    /\ UNCHANGED <<values, prev, cheese, roll, sel>>
    /\ UNCHANGED <<cycles, cheese_mid, cheese_high, chapter_tape, cycle_index, runs, hunts,
                   total_runs, total_hunts, last_cycle_runs, last_cycle_hunts>>
    /\ UNCHANGED <<run_values, run_ready, extended, switch_to_medium, extra,
                   ext_cheese, ext_at, ready>>
    /\ UNCHANGED <<setupVars, optVars, heapVars, seqVars, tableVars, aggVars>>

\* for cheese_value in sequence: self._apply_hunt_step(notoriety, ...), on the
\* notoriety list of the cycle itself
CycleHuntStep ==
    /\ pc = "hunting"
    /\ pos <= cheese_mid + cheese_high
    /\ ApplyHuntStep(BuildMalletCheeseSequence(cheese_mid, cheese_high)[pos], cumulative)
    /\ pos' = pos + 1
    /\ UNCHANGED <<pc, weights>>
    /\ UNCHANGED <<run_values, run_ready, extended, switch_to_medium, extra,
                   ext_cheese, ext_at, ready>>
    /\ UNCHANGED <<setupVars, optVars, heapVars, extVars>>

\* the run returned: runs += 1; hunts += run_hunts; then the test of the cycle
EndSingleRun ==
    /\ pc = "hunting"
    /\ pos > cheese_mid + cheese_high
    /\ runs' = runs + 1
    /\ hunts' = hunts + run_hunts
    /\ IF CycleComplete(values)
       THEN /\ total_runs' = total_runs + runs'
            /\ total_hunts' = total_hunts + hunts'
            /\ last_cycle_runs' = runs'
            /\ last_cycle_hunts' = hunts'
            /\ values' = [g \in GenreIdx |-> 0]
            /\ cycle_index' = cycle_index + 1
            /\ pc' = "cycle"
       ELSE /\ pc' = "run_start"
            /\ UNCHANGED <<values, total_runs, total_hunts, last_cycle_runs,
                           last_cycle_hunts, cycle_index>>
    /\ UNCHANGED <<prev, cheese, roll, sel, cumulative, weights>>
    /\ UNCHANGED <<cycles, cheese_mid, cheese_high, chapter_tape, pages, run_hunts>>
    /\ UNCHANGED <<setupVars, trialVars, optVars, heapVars, seqVars, tableVars, aggVars>>

\* the loop over the cycles is over
EndCycles ==
    /\ pc = "cycle"
    /\ cycle_index = cycles
    /\ pc' = "cycles_done"
    /\ UNCHANGED <<engineVars, setupVars, trialVars, optVars, heapVars, extVars>>

\* ------------------------------------------------------------------ inputs
\* the cheese amounts and the chapter draws of the runs of a cycle; a chapter
\* draw is the hunts of the first chapter and the genre of each chapter
CycleChoices ==
    LET OnGenre(h, g) == [first |-> h, genres |-> [i \in 1..NumChapters |-> g]]
        Mixed(h) == [first |-> h, genres |-> <<1, 2, 3, 4, 5, 5>>]
    IN  {[mid |-> 2, high |-> 0,
          tape |-> <<OnGenre(10, 2), OnGenre(10, 1), OnGenre(10, 1), OnGenre(10, 1),
                     OnGenre(10, 1), OnGenre(10, 1), OnGenre(10, 1), OnGenre(10, 1),
                     OnGenre(10, 3), OnGenre(10, 4), OnGenre(10, 5), OnGenre(10, 2)>>],
         [mid |-> 0, high |-> 1,
          tape |-> <<OnGenre(30, 1), OnGenre(20, 2), OnGenre(10, 3), OnGenre(10, 4),
                     OnGenre(10, 5)>>],
         [mid |-> 1, high |-> 1,
          tape |-> <<Mixed(30), Mixed(10)>>]}

InitCycle ==
    /\ pc = "cycle"
    /\ cycles \in 1..MaxCycles
    /\ \E c \in CycleChoices :
        /\ cheese_mid = c.mid
        /\ cheese_high = c.high
        /\ chapter_tape = c.tape
    /\ cycle_index = 0
    /\ runs = 0
    /\ hunts = 0
    /\ total_runs = 0
    /\ total_hunts = 0
    /\ last_cycle_runs = 0
    /\ last_cycle_hunts = 0
    /\ pages = <<>>
    /\ run_hunts = 0
    /\ EngineIdle
    /\ DualIdle
    /\ OptIdle
    /\ HeapIdle
    /\ SeqIdle
    /\ TableIdle
    /\ AggIdle

NextCycle ==
    \/ BeginCycle
    \/ BeginSingleRun
    \/ CycleHuntStep
    \/ EndSingleRun
    \/ EndCycles

SpecCycle == InitCycle /\ [][NextCycle]_vars

\* ------------------------------------------------------------------ claims
\* C20: a cycle ends at the end of the first run after which every notoriety is
\* strictly above 80: a run ends the cycle exactly when that holds of the
\* vector it leaves (one entry at exactly 80 keeps the cycle going), nothing
\* but the end of a run ends a cycle, a run starts from the notoriety the runs
\* before it left, every cycle starts from the all-zero vector and every
\* finished cycle counted at least one run.
C20_CycleEndsAfterCompleteRun ==
    /\ [](pc = "run_start" /\ runs = 0 => values = [g \in GenreIdx |-> 0])
    /\ [](pc = "run_start" /\ runs >= 1 => \E g \in GenreIdx : values[g] <= 80)
    /\ [](cycle_index >= 1 => last_cycle_runs >= 1 /\ total_runs >= cycle_index)
    /\ [][runs' = runs + 1 =>
            ((cycle_index' = cycle_index + 1) <=> (\A g \in GenreIdx : values[g] > 80))]_vars
    /\ [][cycle_index' # cycle_index =>
            runs' = runs + 1 /\ cycle_index' = cycle_index + 1]_vars
    /\ [][pc = "run_start" /\ pc' = "hunting" => values' = values]_vars

\* in the second cycle, eleven runs in, one genre stands at exactly 80 and the
\* others above it: the cycle goes on, as the first one did up to its run 12
C20_Witness ==
    /\ cycle_index = 1
    /\ last_cycle_runs = 12
    /\ pc = "run_start"
    /\ runs = 11
    /\ values = <<194, 80, 96, 98, 100>>

\* C27: every token a run of the cycle simulator applies is no larger than the
\* tokens the run applied before it (every 125 before every 50)
C27_LargestTokensFirst ==
    [][pc = "hunting" /\ pos' = pos + 1 =>
        \A j \in 1..(pos - 1) :
            BuildMalletCheeseSequence(cheese_mid, cheese_high)[j]
                >= BuildMalletCheeseSequence(cheese_mid, cheese_high)[pos]]_vars

\* =============================================== ten tokens, uniform weights
\* the samples of random.random() explored at step p of the run: the midpoint
\* of the interval of each genre in rotation, and the midpoint of the interval
\* of the first genre
SampleChoices(p) ==
    {RNorm(2 * (((p - 1) % NumGenres) + 1) - 1, 2 * NumGenres), RNorm(1, 2 * NumGenres)}

\* _simulate_probability on all-zero notoriety and all-zero page counts with
\* ten tokens of 50
InitRun ==
    /\ pc = "start"
    /\ variant = "optimizer"
    /\ base_notoriety = [g \in GenreIdx |-> 0]
    /\ heap = [o \in ObjIds |-> IF o = 1 THEN base_notoriety ELSE <<>>]
    /\ given_ref = 0
    /\ values_ref = 0
    /\ run_limit = MaxRuns
    /\ runs_done = 0
    /\ displayed = TRUE
    /\ sequences = <<BuildCheeseSequence(<<0, 10, 0>>), <<>> >>
    /\ page_vars = <<ZeroPages, ZeroPages>>
    /\ auto_extend_var = <<FALSE, FALSE>>
    /\ extend_var = <<FALSE, FALSE>>
    /\ setup_index = 0
    /\ start_values = <<>>
    /\ stage_cumulative = <<>>
    /\ custom_counts = <<>>
    /\ EngineIdle
    /\ pos = 0
    /\ run_values = <<>>
    /\ run_ready = FALSE
    /\ extended = FALSE
    /\ switch_to_medium = FALSE
    /\ extra = 0
    /\ ext_cheese = <<>>
    /\ ext_at = <<>>
    /\ ready = FALSE
    /\ totals = <<>>
    /\ ready_runs = 0
    /\ threshold_counts = <<>>
    /\ extend_counts = <<>>
    /\ total_extensions = 0
    /\ OptIdle
    /\ SeqIdle
    /\ TableIdle
    /\ CycleIdle

\* one iteration of the loop of _simulate_sequence, on an explored sample
RunStep ==
    /\ pc = "sim"
    /\ pos <= Len(sequences[1])
    /\ \E r \in SampleChoices(pos) :
        LET i == SelectGenreIndex(r, stage_cumulative)
        IN  /\ roll' = r
            /\ sel' = i
            /\ prev' = values
            /\ cheese' = sequences[1][pos]
            /\ cumulative' = stage_cumulative
            /\ values' = StepValues(values, sequences[1][pos], i)
    /\ heap' = [heap EXCEPT ![values_ref] = values']
    /\ UNCHANGED <<given_ref, values_ref>>
    /\ pos' = pos + 1
    /\ UNCHANGED <<pc, weights, setupVars>>
    /\ UNCHANGED <<run_values, run_ready, extended, switch_to_medium, extra,
                   ext_cheese, ext_at, ready>>
    /\ UNCHANGED <<optVars, extVars>>

NextRun ==
    \/ StartSimulation
    \/ BeginRun
    \/ RunStep
    \/ EndRun

SpecRun == InitRun /\ [][NextRun]_vars

\* ------------------------------------------------------------------ claims
\* C21: from all zeros, with ten tokens of 50 and the uniform distribution,
\* some sequences of ten selections end ready and some do not: a run that
\* returned ready has every genre at 92 or more (each was selected twice), a
\* run that returned not ready has a genre at 50 or less (selected at most
\* once), and both kinds of run occur.
C21_BothOutcomesReachable ==
    /\ ready_runs \in 0..runs_done
    /\ run_values # <<>> =>
            /\ Len(sequences[1]) = 10
            /\ \A p \in 1..10 : sequences[1][p] = 50
            /\ stage_cumulative = [g \in GenreIdx |-> RNorm(g, NumGenres)]
            /\      \/ run_ready /\ \A g \in GenreIdx : run_values[g] >= 92
                    \/ ~run_ready /\ \E g \in GenreIdx : run_values[g] <= 50

\* the loop is over: one of its runs was ready and one was not
C21_Witness ==
    /\ pc = "finished"
    /\ runs_done = MaxRuns
    /\ ready_runs > 0
    /\ ready_runs < runs_done

====
